---- MODULE Spec2Model ----
(***************************************************************************)
(* State-machine model of the pidgin-chime session layer (src/chime.c) and *)
(* of the chat-room layer (src/chat.c).                                    *)
(*                                                                         *)
(* ConnSpec: one connection, from chime_purple_login to chime_purple_close:*)
(*   the soup request queue, the pending-renewal queue (cxn->msg_queue),   *)
(*   token renewal, websocket negotiation and upgrade.                     *)
(* ChatSpec: the chat rooms of one connection: join, history and           *)
(*   membership pagination, live events, send, leave.                      *)
(***************************************************************************)
EXTENDS Integers, Sequences, FiniteSets, TLC

(***************************************************************************)
(* Bounds of the model.                                                    *)
(***************************************************************************)
\* requests the upper layers hand to the HTTP queue during one connection
MaxRest == 2
\* renewal requests the server can force during one connection
MaxRenewals == 2
\* messages of a room: their ids are 1 .. MaxMsgs
MaxMsgs == 2
\* chat sessions created during one connection
MaxJoins == 2
\* pages of one history fetch and of one membership fetch
MaxPages == 2
\* messages sent with chime_purple_chat_send during one connection
MaxSends == 1
\* the subscriptions of the event channel that other modules register
MaxObservers == 1
\* the pieces a typed message is made of
MaxPieces == 3
\* idle sources the main loop is given during one connection
MaxSources == 3

VARIABLES
    \* ---- struct chime_connection and its soup session (src/chime.c) ----
    cxn,            \* "none" | "alive" | "freed": the protocol data of the PurpleConnection
    session_token,  \* cxn->session_token: 0 is NULL, n > 0 the n-th token the server gave
    msg_queue,      \* cxn->msg_queue: the pending-renewal queue, a list of chime_msg_queue
    soup_msgs,      \* every SoupMessage created: <<callback, n>> |-> its record
    ws_conn,        \* "none" | "connecting" | "open" | "failed" | "closed"
    conn_state,     \* "offline" | "connecting" | "connected" (purple_connection_set_state)
    conn_error,     \* purple_connection_error*() was called: the host will disconnect
    \* ---- history of the pending-renewal queue ----
    parked_log,     \* the messages resubmit_msg_for_auth parked since the queue was last empty, in order
    reissue_log,    \* the re-issues of the last run of renew_cb, in order: [msg, cookie, token]
    at_close,       \* the messages pending when chime_purple_close ran: [inflight, parked]
    \* ---- the chat rooms of the connection (src/chat.c) ----
    chat_id,        \* priv->chat_id: the id the last joined chat got
    chats,          \* the struct chime_chat objects alive, by handle (the chat id)
    live_chats,     \* priv->live_chats: chat id |-> chat
    chats_by_room,  \* priv->chats_by_room: room |-> chat
    subs,           \* the subscriptions of the event channel, in registration order
    last_msg,       \* the last-seen marker of each room: [time, id], time 0 when absent
    requests,       \* the HTTP requests of the chats in flight
    delivered,      \* per room: the message ids handed to serv_got_chat_in in its session
    conv_log,       \* per room: what else the conversation of the room was told
    sends,          \* the chime_purple_chat_send calls so far: number and answered ids
    stale_cbs,      \* the kinds of request whose callback ran in the last step after its chat was freed
    published,      \* the RoomMessage events the server has published: <<channel, id>>
    calls,          \* the callbacks the last dispatch invoked, in order: [sub, handled]
    last_record,    \* the membership record add_chat_member last accepted: <<node>>
    \* ---- the text of one message on its way out and back in (src/chat.c) ----
    mention,        \* [message, members, wire, shown, stage]
    \* ---- struct purple_chime and the joinable-meetings dialog (src/prpl/meeting.c) ----
    purple_chime,        \* "alive" | "destroyed": the protocol data of the connection
    joinable_handle,     \* pc->joinable_handle: "NULL" | "dialog"
    joinable_refresh_id, \* pc->joinable_refresh_id: 0 or the id of an idle source
    sources,             \* the idle sources of the main loop, by id: "pending" | "ran" | "removed"
    meetings,            \* the meetings of the connection: meeting |-> times sub_mtg connected it
    rows                 \* the rows the dialog shows

conn_vars == <<cxn, session_token, msg_queue, soup_msgs, ws_conn, conn_state,
               conn_error, parked_log, reissue_log, at_close>>

chat_vars == <<chat_id, chats, live_chats, chats_by_room, subs, last_msg,
               requests, delivered, conv_log, sends, stale_cbs, published>>

vars == <<cxn, session_token, msg_queue, soup_msgs, ws_conn, conn_state,
          conn_error, parked_log, reissue_log, at_close,
          chat_id, chats, live_chats, chats_by_room, subs, last_msg,
          requests, delivered, conv_log, sends, stale_cbs, published, calls, last_record,
          mention, purple_chime, joinable_handle, joinable_refresh_id, sources,
          meetings, rows>>

\* what ChannelSpec and MembershipSpec record of the events they deliver
log_vars == <<calls, last_record>>

\* what the steps of each specification leave alone
meeting_vars == <<purple_chime, joinable_handle, joinable_refresh_id, sources,
                  meetings, rows>>
aside_vars == <<mention, meeting_vars>>
not_conn_vars == <<chat_vars, log_vars, aside_vars>>
not_chat_vars == <<conn_vars, log_vars, aside_vars>>

(***************************************************************************)
(* Helpers on sequences.                                                   *)
(***************************************************************************)
Range(s) == {s[i] : i \in DOMAIN s}

(***************************************************************************)
(* Responses of the server.                                                *)
(***************************************************************************)
\* HTTP status codes the model draws from; StatusCancelled is the status of a
\* message that was cancelled (SOUP_STATUS_CANCELLED).
HttpStatuses == {200, 201, 401, 500}
StatusCancelled == 1

\* A JSON response: status, content type is application/json, body parses,
\* and the body has the SessionToken member (renewal responses).
JsonResponses ==
    {r \in [status : HttpStatuses, ctype : BOOLEAN, json : BOOLEAN, tok : BOOLEAN] :
        \* what is never read is not varied
        /\ r.status \notin {200, 201} => r.ctype
        /\ ~r.ctype => r.json
        /\ ~r.json => r.tok}

CancelledResponse ==
    [status |-> StatusCancelled, ctype |-> FALSE, json |-> FALSE, tok |-> FALSE]

\* The members parse_regnode reads, in the order it reads them.
RegFields == << "Session", "SessionToken", "Profile.id", "Profile.profile_channel",
                "Device.DeviceId", "Device.Channel", "ServiceConfig",
                "Presence.RestUrl", "Push.ReachabilityUrl", "Push.WebsocketUrl",
                "Profile.RestUrl", "Contacts.RestUrl", "Messaging.RestUrl",
                "Conference.RestUrl" >>

\* A registration response: a JSON response and the first member of RegFields
\* that is missing from it (0: none is missing).
RegResponses ==
    {r \in [status : HttpStatuses, ctype : BOOLEAN, json : BOOLEAN,
             missing : 0 .. Len(RegFields)] :
        \* what is never read is not varied
        /\ r.status \notin {200, 201} => r.ctype
        /\ ~r.ctype => r.json
        /\ ~r.json => r.missing = 0}

\* The body of a negotiation response: no body at all, or nfields
\* colon-separated fields of which the fourth is the transport list.
Transports == {"websocket", "xhr-polling"}
TransportLists ==
    {<<a>> : a \in Transports} \cup {<<a, b>> : a \in Transports, b \in Transports}
WsResponses ==
    {r \in [status : HttpStatuses, data : BOOLEAN, nfields : 1 .. 4,
             protos : TransportLists] :
        \* what is never read is not varied
        /\ r.status # 200 => r.data
        /\ ~r.data => r.nfields = 4
        /\ r.nfields < 4 => r.protos = <<"websocket", "xhr-polling">>}

(***************************************************************************)
(* process_soup_response: the parsed node, or the reason for none.         *)
(***************************************************************************)
process_soup_response(r) ==
    IF r.status # 200 /\ r.status # 201 THEN "CHIME_ERROR_REQUEST_FAILED"
    ELSE IF ~r.ctype THEN "CHIME_ERROR_BAD_RESPONSE"
    ELSE IF ~r.json THEN "JSON_PARSER_ERROR"
    ELSE "node"

(***************************************************************************)
(* SoupMessage records.                                                    *)
(*   cb     : the callback the message was queued with                     *)
(*   st     : "queued"    handed to the soup session, response outstanding *)
(*            "parked"    held by the pending-renewal queue                *)
(*            "aborted"   cancelled by soup_session_abort, callback due    *)
(*            "finished"  its callback ran and did not park it             *)
(*            "dropped"   freed from the pending-renewal queue unanswered  *)
(*   cookie : the token of its Cookie header (0: no header)                *)
(*   reissued : renew_cb handed it to the soup session again               *)
(*   resp   : the last response its callback saw: "none" while one is      *)
(*            outstanding, "unauthorized" (401), "cancelled", "answered"   *)
(*   done   : the results its callback ended the request with:             *)
(*            "ok", "failed" (failure handed to the caller), "conn_error"  *)
(*            (a connection error was raised), "cancelled"                 *)
(***************************************************************************)
NewMsg(cb, tok) ==
    [cb |-> cb, st |-> "queued", cookie |-> tok, resp |-> "none", reissued |-> FALSE,
     done |-> <<>>]

\* what a message record keeps of the response its callback was called with
RespKind(r) ==
    IF r.status = 401 THEN "unauthorized"
    ELSE IF r.status = StatusCancelled THEN "cancelled"
    ELSE "answered"

\* the callback of m ran on response r and ended the request with result
Finish(msgs, m, r, result) ==
    [msgs EXCEPT ![m].st = "finished", ![m].resp = RespKind(r),
                 ![m].done = Append(@, result)]

Queued(m) == m \in DOMAIN soup_msgs /\ soup_msgs[m].st = "queued"

\* the messages of callback cb whose response is outstanding
Outstanding(cb) ==
    {m \in DOMAIN soup_msgs : soup_msgs[m].cb = cb /\ soup_msgs[m].st = "queued"}

\* the messages created for one callback; the n-th is named <<cb, n>>
Count(msgs, cb) == Cardinality({m \in DOMAIN msgs : m[1] = cb})
NumMsgs(cb) == Count(soup_msgs, cb)

QueueMsg(msgs, cb, tok) ==
    msgs @@ (<<cb, Count(msgs, cb) + 1>> :> NewMsg(cb, tok))

\* purple_connection_error_reason: the host notes the first error and
\* schedules the disconnect; it ignores the error of a connection already in error
RaiseError(reason) ==
    conn_error' = TRUE

ErrorReasons == {"no_token", "registration_failed", "registration_response",
                 "websocket_status", "websocket_setup", "websocket_connect",
                 "token_renewal", "renew_session_token"}

\* Whether the server may still answer 401 so that the request is parked: a 401
\* that starts a renewal is limited to MaxRenewals renewals per connection.
CanPark == msg_queue # <<>> \/ NumMsgs("renew_cb") < MaxRenewals

(***************************************************************************)
(* chime_queue_http_request: a new SoupMessage carrying the cookie of the  *)
(* current session token (none while session_token is NULL).               *)
(***************************************************************************)
chime_queue_http_request(msgs, cb) ==
    QueueMsg(msgs, cb, session_token)

(***************************************************************************)
(* chime_renew_token: POST the current token to <profile_url>/tokens.      *)
(***************************************************************************)
chime_renew_token(msgs) ==
    chime_queue_http_request(msgs, "renew_cb")

(***************************************************************************)
(* resubmit_msg_for_auth: park the message; start a renewal unless the     *)
(* pending-renewal queue already holds a message.                          *)
(***************************************************************************)
\* variant: the test of cxn->msg_queue is left out, every parked message
\* starts a renewal
resubmit_always_renews(m, cb) ==
    /\ msg_queue' = Append(msg_queue, [msg |-> m, cb |-> cb])
    /\ parked_log' = IF msg_queue # <<>> THEN Append(parked_log, m) ELSE <<m>>
    /\ soup_msgs' = chime_renew_token([soup_msgs EXCEPT ![m].st = "parked",
                                                        ![m].resp = "unauthorized"])

\* variant: a renewal is started only if none was ever started
resubmit_renews_once(m, cb) ==
    LET cmsg   == [msg |-> m, cb |-> cb]
        parked == [soup_msgs EXCEPT ![m].st = "parked", ![m].resp = "unauthorized"]
    IN /\ msg_queue' = Append(msg_queue, cmsg)
       /\ parked_log' = IF msg_queue # <<>> THEN Append(parked_log, m) ELSE <<m>>
       /\ IF msg_queue # <<>> \/ NumMsgs("renew_cb") > 0
          THEN soup_msgs' = parked
          ELSE soup_msgs' = chime_renew_token(parked)

resubmit_msg_for_auth(m, cb) ==
    LET cmsg   == [msg |-> m, cb |-> cb]
        parked == [soup_msgs EXCEPT ![m].st = "parked", ![m].resp = "unauthorized"]
    IN /\ msg_queue' = Append(msg_queue, cmsg)
       /\ parked_log' = IF msg_queue # <<>> THEN Append(parked_log, m) ELSE <<m>>
       /\ IF msg_queue # <<>>
          THEN \* Already renewing; just add to the list
               soup_msgs' = parked
          ELSE soup_msgs' = chime_renew_token(parked)

(***************************************************************************)
(* chime_purple_login                                                      *)
(***************************************************************************)
chime_purple_login(has_token) ==
    /\ conn_state = "offline"
    /\ cxn = "none"
    /\ conn_state' = "connecting"
    /\ IF ~has_token
       THEN \* purple_connection_error(cxn->prpl_conn, ...) with cxn not yet
            \* assigned: the call goes through an uninitialised pointer
            /\ \E raised \in BOOLEAN :
                  IF raised THEN RaiseError("no_token")
                  ELSE conn_error' = conn_error
            /\ UNCHANGED <<cxn, soup_msgs>>
       ELSE /\ cxn' = "alive"
            /\ soup_msgs' = chime_queue_http_request(soup_msgs, "register_cb")
            /\ conn_error' = conn_error
    /\ UNCHANGED <<session_token, msg_queue, ws_conn, parked_log, reissue_log, at_close>>

(***************************************************************************)
(* parse_regnode: fails at the first missing member; the session token is  *)
(* stored as soon as Session.SessionToken was read.                        *)
(***************************************************************************)
parse_regnode(r) ==
    [ok |-> r.missing = 0, token_stored |-> r.missing = 0 \/ r.missing > 2]

(***************************************************************************)
(* register_cb                                                             *)
(***************************************************************************)
\* variant: a 401 answer to the registration is parked for a token renewal
register_cb_parks_401(m, r) ==
    /\ cxn = "alive"
    /\ Queued(m) /\ soup_msgs[m].cb = "register_cb"
    /\ IF r.status = 401
       THEN /\ CanPark
            /\ resubmit_msg_for_auth(m, "register_cb")
            /\ UNCHANGED <<session_token, conn_error>>
       ELSE /\ UNCHANGED <<msg_queue, parked_log>>
            /\ IF process_soup_response(r) # "node"
               THEN /\ RaiseError("registration_failed")
                    /\ soup_msgs' = Finish(soup_msgs, m, r, "conn_error")
                    /\ UNCHANGED session_token
               ELSE LET reg == parse_regnode(r) IN
                    /\ session_token' = IF reg.token_stored THEN 1 ELSE session_token
                    /\ IF ~reg.ok
                       THEN /\ RaiseError("registration_response")
                            /\ soup_msgs' = Finish(soup_msgs, m, r, "conn_error")
                       ELSE /\ conn_error' = conn_error
                            /\ soup_msgs' = QueueMsg(Finish(soup_msgs, m, r, "ok"), "ws_cb", 1)
    /\ UNCHANGED <<cxn, ws_conn, conn_state, reissue_log, at_close>>

register_cb(m, r) ==
    /\ cxn = "alive"
    /\ Queued(m) /\ soup_msgs[m].cb = "register_cb"
    /\ IF process_soup_response(r) # "node"
       THEN /\ RaiseError("registration_failed")
            /\ soup_msgs' = Finish(soup_msgs, m, r, "conn_error")
            /\ UNCHANGED session_token
       ELSE LET reg == parse_regnode(r) IN
            /\ session_token' = IF reg.token_stored THEN 1 ELSE session_token
            /\ IF ~reg.ok
               THEN /\ RaiseError("registration_response")
                    /\ soup_msgs' = Finish(soup_msgs, m, r, "conn_error")
               ELSE /\ conn_error' = conn_error
                    /\ soup_msgs' = QueueMsg(Finish(soup_msgs, m, r, "ok"), "ws_cb", 1)
    /\ UNCHANGED <<cxn, msg_queue, ws_conn, conn_state, parked_log, reissue_log, at_close>>

(***************************************************************************)
(* ws_cb: the answer to the negotiation request.                           *)
(***************************************************************************)
\* g_strsplit(body, ":", 4) gave four fields and the fourth starts with
\* "websocket," (strncmp over 10 characters)
ws_opts_ok(r) ==
    /\ r.data
    /\ r.nfields = 4
    /\ r.protos[1] = "websocket"
    /\ Len(r.protos) >= 2

\* variant: the negotiation callback tests for another status than 401
ws_auth_failure_403(r) == r.status = 403

\* msg->status_code == 401
ws_auth_failure(r) == r.status = 401

ws_cb(m, r) ==
    /\ cxn = "alive"
    /\ Queued(m) /\ soup_msgs[m].cb = "ws_cb"
    /\ IF ws_auth_failure(r)
       THEN /\ CanPark
            /\ resubmit_msg_for_auth(m, "ws_cb")
            /\ UNCHANGED <<ws_conn, conn_error>>
       ELSE /\ IF r.status # 200
               THEN /\ RaiseError("websocket_status")
                    /\ soup_msgs' = Finish(soup_msgs, m, r, "conn_error")
                    /\ UNCHANGED ws_conn
               ELSE IF ~ws_opts_ok(r)
               THEN /\ RaiseError("websocket_setup")
                    /\ soup_msgs' = Finish(soup_msgs, m, r, "conn_error")
                    /\ UNCHANGED ws_conn
               ELSE /\ ws_conn' = "connecting"
                    /\ soup_msgs' = Finish(soup_msgs, m, r, "ok")
                    /\ UNCHANGED conn_error
            /\ UNCHANGED <<msg_queue, parked_log>>
    /\ UNCHANGED <<cxn, session_token, conn_state, reissue_log, at_close>>

(***************************************************************************)
(* ws2_cb: the end of the websocket upgrade.                               *)
(***************************************************************************)
\* variant: the connection is reported connected whatever the upgrade gave
ws2_cb_connects_anyway(ok) ==
    /\ cxn = "alive"
    /\ ws_conn = "connecting"
    /\ IF ok
       THEN /\ ws_conn' = "open"
            /\ conn_state' = "connected"
            /\ UNCHANGED conn_error
       ELSE /\ ws_conn' = "failed"
            /\ RaiseError("websocket_connect")
            /\ conn_state' = "connected"
    /\ UNCHANGED <<cxn, session_token, msg_queue, soup_msgs, parked_log,
                   reissue_log, at_close>>

ws2_cb(ok) ==
    /\ cxn = "alive"
    /\ ws_conn = "connecting"
    /\ IF ok
       THEN /\ ws_conn' = "open"
            /\ conn_state' = "connected"
            /\ UNCHANGED conn_error
       ELSE /\ ws_conn' = "failed"
            /\ RaiseError("websocket_connect")
            /\ UNCHANGED conn_state
    /\ UNCHANGED <<cxn, session_token, msg_queue, soup_msgs, parked_log,
                   reissue_log, at_close>>

(***************************************************************************)
(* renew_cb                                                                *)
(***************************************************************************)
\* the token of the Cookie header renew_cb computes: the token just stored
renew_cookie_hdr(old_token, new_token) == new_token

\* variant: the loop takes the parked messages from the tail (g_list_last)
renew_reissue_from_tail(queue) ==
    [i \in 1 .. Len(queue) |-> queue[Len(queue) + 1 - i]]

\* the order in which the loop takes the parked messages: g_list_first each time
renew_reissue_order(queue) == queue

\* soup_session_queue_message for every message of the list, with the new cookie
RECURSIVE renew_reissue(_, _, _)
renew_reissue(msgs, order, cookie) ==
    IF order = <<>> THEN msgs
    ELSE LET cmsg == Head(order) IN
         renew_reissue([msgs EXCEPT ![cmsg.msg].st = "queued",
                                    ![cmsg.msg].cb = cmsg.cb,
                                    ![cmsg.msg].cookie = cookie,
                                    ![cmsg.msg].resp = "none",
                                    ![cmsg.msg].reissued = TRUE],
                       Tail(order), cookie)

renew_cb(m, r) ==
    /\ cxn = "alive"
    /\ Queued(m) /\ soup_msgs[m].cb = "renew_cb"
    /\ IF process_soup_response(r) # "node"
       THEN /\ RaiseError("token_renewal")
            /\ soup_msgs' = Finish(soup_msgs, m, r, "conn_error")
            /\ UNCHANGED <<session_token, msg_queue, reissue_log>>
       ELSE IF ~r.tok
       THEN /\ RaiseError("renew_session_token")
            /\ soup_msgs' = Finish(soup_msgs, m, r, "conn_error")
            /\ UNCHANGED <<session_token, msg_queue, reissue_log>>
       ELSE LET sess_tok == session_token + 1
                cookie   == renew_cookie_hdr(session_token, sess_tok)
                order    == renew_reissue_order(msg_queue)
            IN /\ session_token' = sess_tok
               /\ soup_msgs' = renew_reissue(Finish(soup_msgs, m, r, "ok"), order, cookie)
               /\ reissue_log' =
                     [i \in 1 .. Len(order) |->
                         [msg |-> order[i].msg, cookie |-> cookie, token |-> sess_tok]]
               /\ msg_queue' = <<>>
               /\ UNCHANGED conn_error
    /\ UNCHANGED <<cxn, ws_conn, conn_state, parked_log, at_close>>

(***************************************************************************)
(* The HTTP queue of the upper layers (chime_connection_queue_http_request *)
(* and its completion): a request completes with the parsed response or a  *)
(* failure; a 401 parks it instead.                                        *)
(***************************************************************************)
chime_connection_queue_http_request ==
    /\ cxn = "alive"
    /\ session_token # 0
    /\ NumMsgs("rest_cb") < MaxRest
    /\ soup_msgs' = chime_queue_http_request(soup_msgs, "rest_cb")
    /\ UNCHANGED <<cxn, session_token, msg_queue, ws_conn, conn_state, conn_error,
                   parked_log, reissue_log, at_close>>

soup_msg_cb(m, r) ==
    /\ cxn = "alive"
    /\ Queued(m) /\ soup_msgs[m].cb = "rest_cb"
    /\ IF r.status = 401
       THEN /\ CanPark
            /\ resubmit_msg_for_auth(m, "rest_cb")
       ELSE /\ soup_msgs' = Finish(soup_msgs, m, r,
                                   IF process_soup_response(r) = "node"
                                   THEN "ok" ELSE "failed")
            /\ UNCHANGED <<msg_queue, parked_log>>
    /\ UNCHANGED <<cxn, session_token, ws_conn, conn_state, conn_error,
                   reissue_log, at_close>>

(***************************************************************************)
(* chime_purple_close                                                      *)
(***************************************************************************)
\* soup_session_abort: every message of the session is cancelled
soup_session_abort(msgs) ==
    [m \in DOMAIN msgs |->
        IF msgs[m].st = "queued" THEN [msgs[m] EXCEPT !.st = "aborted"] ELSE msgs[m]]

\* g_list_free_full(cxn->msg_queue, g_object_unref): the list is freed, no
\* callback of a parked message is called
free_msg_queue(msgs) ==
    [m \in DOMAIN msgs |->
        IF msgs[m].st = "parked" THEN [msgs[m] EXCEPT !.st = "dropped"] ELSE msgs[m]]

chime_purple_close ==
    /\ cxn = "alive"
    /\ soup_msgs' = free_msg_queue(soup_session_abort(soup_msgs))
    /\ msg_queue' = <<>>
    /\ ws_conn' = IF ws_conn = "open" THEN "none" ELSE ws_conn
    /\ cxn' = "freed"
    /\ at_close' = [closed   |-> TRUE,
                    inflight |-> {m \in DOMAIN soup_msgs : soup_msgs[m].st = "queued"},
                    parked   |-> {m \in DOMAIN soup_msgs : soup_msgs[m].st = "parked"}]
    /\ UNCHANGED <<session_token, conn_state, conn_error, parked_log,
                   reissue_log>>

(***************************************************************************)
(* The callback of a message the abort cancelled: it runs with             *)
(* SOUP_STATUS_CANCELLED after chime_purple_close freed the connection.    *)
(* register_cb, ws_cb and renew_cb take their error path and report it     *)
(* through the freed cxn: the report may or may not reach the host.        *)
(***************************************************************************)
AbortedReason(cb) ==
    CASE cb = "register_cb" -> "registration_failed"
      [] cb = "ws_cb"       -> "websocket_status"
      [] cb = "renew_cb"    -> "token_renewal"
      [] OTHER              -> "none"

aborted_cb(m) ==
    /\ cxn = "freed"
    /\ m \in DOMAIN soup_msgs /\ soup_msgs[m].st = "aborted"
    /\ soup_msgs' = Finish(soup_msgs, m, CancelledResponse, "cancelled")
    /\ IF soup_msgs[m].cb = "rest_cb"
       THEN conn_error' = conn_error
       ELSE \E raised \in BOOLEAN :
               IF raised THEN RaiseError(AbortedReason(soup_msgs[m].cb))
               ELSE conn_error' = conn_error
    /\ UNCHANGED <<cxn, session_token, msg_queue, ws_conn, conn_state,
                   parked_log, reissue_log, at_close>>

\* the upgrade the abort cancelled: ws2_cb takes its error path on the freed cxn
ws2_cb_aborted ==
    /\ cxn = "freed"
    /\ ws_conn = "connecting"
    /\ ws_conn' = "failed"
    /\ \E raised \in BOOLEAN :
          IF raised THEN RaiseError("websocket_connect")
          ELSE conn_error' = conn_error
    /\ UNCHANGED <<cxn, session_token, msg_queue, soup_msgs, conn_state,
                   parked_log, reissue_log, at_close>>

(***************************************************************************)
(* The connection: initial state and next-state relation.                  *)
(***************************************************************************)
ConnInit ==
    /\ cxn = "none"
    /\ session_token = 0
    /\ msg_queue = <<>>
    /\ soup_msgs = <<>>
    /\ ws_conn = "none"
    /\ conn_state = "offline"
    /\ conn_error = FALSE
    /\ parked_log = <<>>
    /\ reissue_log = <<>>
    /\ at_close = [closed |-> FALSE, inflight |-> {}, parked |-> {}]

ConnNext ==
    \/ \E has_token \in BOOLEAN : chime_purple_login(has_token)
            /\ UNCHANGED not_conn_vars
    \/ \E m \in Outstanding("register_cb") : \E r \in RegResponses : register_cb(m, r)
            /\ UNCHANGED not_conn_vars
    \/ \E m \in Outstanding("ws_cb") : \E r \in WsResponses : ws_cb(m, r)
            /\ UNCHANGED not_conn_vars
    \/ \E ok \in BOOLEAN : ws2_cb(ok) /\ UNCHANGED not_conn_vars
    \/ \E m \in Outstanding("renew_cb") : \E r \in JsonResponses : renew_cb(m, r)
            /\ UNCHANGED not_conn_vars
    \/ chime_connection_queue_http_request /\ UNCHANGED not_conn_vars
    \/ \E m \in Outstanding("rest_cb") : \E r \in JsonResponses : soup_msg_cb(m, r)
            /\ UNCHANGED not_conn_vars
    \/ chime_purple_close /\ UNCHANGED not_conn_vars
    \/ \E m \in DOMAIN soup_msgs : aborted_cb(m) /\ UNCHANGED not_conn_vars
    \/ ws2_cb_aborted /\ UNCHANGED not_conn_vars

\* the soup session calls the callback of the renewal request
renewal_answered ==
    /\ \E m \in Outstanding("renew_cb") : \E r \in JsonResponses : renew_cb(m, r)
    /\ UNCHANGED not_conn_vars

(***************************************************************************)
(* The chat rooms (src/chat.c).                                            *)
(*                                                                         *)
(* Every Message record of the server carries MessageId, CreatedOn,        *)
(* Content and Sender; message m was created at time CreatedOn(m). Events  *)
(* may lack their record, its MessageId or its RoomId.                     *)
(***************************************************************************)
Rooms == {"room1"}
MsgIds == 1 .. MaxMsgs
CreatedOn(m) == m
MemberIds == {"u1"}
Emails == {"e1", "e2"}
\* the DisplayName a membership record carries beside this Email
DisplayName(email) == <<"name", email>>

RoomChannel(room) == <<"room", room>>
DeviceChannel == <<"device", "self">>

\* the payload of a RoomMessage event: id 0 is a record without MessageId,
\* room "none" a record without RoomId, room "unknown" an id of no known room
MessageEvents ==
    {e \in [record : BOOLEAN, id : 0 .. MaxMsgs, room : Rooms \cup {"none", "unknown"}] :
        ~e.record => (e.id = 0 /\ e.room = "none")}

\* a RoomMembership record: the Member object is there, the Presence string,
\* ProfileId, Email and DisplayName are all there, the ProfileId, the Email
MemberNodes ==
    {n \in [member : BOOLEAN, presence : {"present", "notPresent", "busy", "none"},
            complete : BOOLEAN, id : MemberIds, email : Emails] :
        /\ ~n.member => (n.presence = "none" /\ n.complete)
        /\ ~n.complete => n.presence = "present"
        /\ (~n.member \/ ~n.complete \/ n.presence \in {"busy", "none"})
              => n.email = "e1"}

\* struct chat_member
chat_member(id, email, display_name) ==
    [id |-> id, email |-> email, display_name |-> display_name]

Drop(f, k) == [x \in DOMAIN f \ {k} |-> f[x]]

\* what a conversation was told besides messages: how often each notice
Log(log, notice) ==
    IF notice \in DOMAIN log THEN [log EXCEPT ![notice] = @ + 1]
    ELSE log @@ (notice :> 1)

\* the state the handlers of src/chat.c work on, as one record
World ==
    [chat_id |-> chat_id, chats |-> chats, live_chats |-> live_chats,
     chats_by_room |-> chats_by_room, subs |-> subs, last_msg |-> last_msg,
     requests |-> requests, delivered |-> delivered, conv_log |-> conv_log,
     sends |-> sends]

SetWorld(W) ==
    /\ chat_id' = W.chat_id
    /\ chats' = W.chats
    /\ live_chats' = W.live_chats
    /\ chats_by_room' = W.chats_by_room
    /\ subs' = W.subs
    /\ last_msg' = W.last_msg
    /\ requests' = W.requests
    /\ delivered' = W.delivered
    /\ conv_log' = W.conv_log
    /\ sends' = W.sends

NoMarker == [time |-> 0, id |-> 0]

(***************************************************************************)
(* The last-seen marker, kept in the account settings of the host.         *)
(***************************************************************************)
chime_update_last_msg(W, room, m) ==
    [W EXCEPT !.last_msg[room] = [time |-> CreatedOn(m), id |-> m]]

chime_read_last_msg(W, room) == W.last_msg[room]

(***************************************************************************)
(* parse_incoming_msg: hands the message to the host (serv_got_chat_in).   *)
(***************************************************************************)
parse_incoming_msg(W, h, m) ==
    [W EXCEPT !.delivered[W.chats[h].room] = Append(@, m)]

(***************************************************************************)
(* chat_deliver_msg: the delivery callback of the room's message sync.     *)
(***************************************************************************)
\* variant: a duplicate of an outbound message stays in sent_msgs
chat_deliver_msg_keeps_id(W, h, m) ==
    IF m \in W.chats[h].sent_msgs
    THEN W
    ELSE parse_incoming_msg(W, h, m)

chat_deliver_msg(W, h, m) ==
    IF m \in W.chats[h].sent_msgs
    THEN \* g_hash_table_remove found it: a duplicate of an outbound message
         [W EXCEPT !.chats[h].sent_msgs = @ \ {m}]
    ELSE parse_incoming_msg(W, h, m)

(***************************************************************************)
(* add_chat_member                                                         *)
(***************************************************************************)
\* variant: the record is stored without a lookup
add_chat_member_replaces(W, h, n) ==
    IF ~n.member THEN [W |-> W, ok |-> FALSE]
    ELSE IF n.presence \notin {"present", "notPresent"} THEN [W |-> W, ok |-> FALSE]
    ELSE IF ~n.complete THEN [W |-> W, ok |-> FALSE]
    ELSE LET flags == IF n.presence = "notPresent" THEN "AWAY" ELSE "VOICE"
             m == chat_member(n.id, n.email, DisplayName(n.email))
         IN IF TRUE
            THEN [W  |-> [W EXCEPT !.chats[h].members = (m.id :> m) @@ @,
                                   \* purple_conv_chat_add_user
                                   !.chats[h].users = (m.email :> flags) @@ @,
                                   !.conv_log[W.chats[h].room] =
                                       Log(@, <<"add_user", m.email>>)],
                  ok |-> TRUE]
            ELSE \* purple_conv_chat_user_set_flags, for the Email of the record
                 [W  |-> [W EXCEPT !.chats[h].users =
                                       IF n.email \in DOMAIN @
                                       THEN [@ EXCEPT ![n.email] = flags] ELSE @],
                  ok |-> TRUE]

add_chat_member(W, h, n) ==
    IF ~n.member THEN [W |-> W, ok |-> FALSE]
    ELSE IF n.presence \notin {"present", "notPresent"} THEN [W |-> W, ok |-> FALSE]
    ELSE IF ~n.complete THEN [W |-> W, ok |-> FALSE]
    ELSE LET flags == IF n.presence = "notPresent" THEN "AWAY" ELSE "VOICE"
             m == chat_member(n.id, n.email, DisplayName(n.email))
         IN IF n.id \notin DOMAIN W.chats[h].members
            THEN [W  |-> [W EXCEPT !.chats[h].members = (m.id :> m) @@ @,
                                   \* purple_conv_chat_add_user
                                   !.chats[h].users = (m.email :> flags) @@ @,
                                   !.conv_log[W.chats[h].room] =
                                       Log(@, <<"add_user", m.email>>)],
                  ok |-> TRUE]
            ELSE \* purple_conv_chat_user_set_flags, for the Email of the record
                 [W  |-> [W EXCEPT !.chats[h].users =
                                       IF n.email \in DOMAIN @
                                       THEN [@ EXCEPT ![n.email] = flags] ELSE @],
                  ok |-> TRUE]

(***************************************************************************)
(* chat_msg_jugg_cb: a RoomMessage event for the chat h.                   *)
(***************************************************************************)
\* variant: the event is delivered whether or not the history is being gathered
chat_msg_jugg_cb_delivers(W, h, e) ==
    IF ~e.record THEN [W |-> W, handled |-> FALSE]
    ELSE IF e.id = 0 THEN [W |-> W, handled |-> FALSE]
    ELSE [W |-> chat_deliver_msg(chime_update_last_msg(W, W.chats[h].room, e.id),
                                 h, e.id),
          handled |-> TRUE]

chat_msg_jugg_cb(W, h, e) ==
    IF ~e.record THEN [W |-> W, handled |-> FALSE]
    ELSE IF e.id = 0 THEN [W |-> W, handled |-> FALSE]
    ELSE IF W.chats[h].gathering
    THEN \* Still gathering messages. Add to the table, to avoid dupes
         [W |-> [W EXCEPT !.chats[h].messages = @ \cup {e.id}], handled |-> TRUE]
    ELSE [W |-> chat_deliver_msg(chime_update_last_msg(W, W.chats[h].room, e.id),
                                 h, e.id),
          handled |-> TRUE]

(***************************************************************************)
(* chat_membership_jugg_cb: a RoomMembership event for the chat h.         *)
(***************************************************************************)
chat_membership_jugg_cb(W, h, e) ==
    IF ~e.record THEN [W |-> W, handled |-> FALSE]
    ELSE LET r == add_chat_member(W, h, e.node)
         IN [W |-> r.W, handled |-> r.ok]

(***************************************************************************)
(* The message sync of a room: fetch_messages, its completion and          *)
(* chime_complete_messages.                                                *)
(***************************************************************************)
Request(kind, h, room, n) ==
    [kind |-> kind, chat |-> h, room |-> room, n |-> n, cancelled |-> FALSE]

\* requests a page of the history; the in-progress buffer exists from here on
fetch_messages(W, h) ==
    [W EXCEPT !.chats[h].gathering = TRUE,
              !.chats[h].soup_msg = TRUE,
              !.requests = @ \cup {Request("msgs", h, W.chats[h].room, 0)}]

\* the buffered messages, sorted by CreatedOn
RECURSIVE SortByTime(_)
SortByTime(S) ==
    IF S = {} THEN <<>>
    ELSE LET first == CHOOSE m \in S : \A x \in S : CreatedOn(m) <= CreatedOn(x)
         IN <<first>> \o SortByTime(S \ {first})

RECURSIVE DeliverAll(_, _, _)
DeliverAll(W, h, ms) ==
    IF ms = <<>> THEN W
    ELSE DeliverAll(chat_deliver_msg(W, h, Head(ms)), h, Tail(ms))

\* history and membership are both loaded: the buffer is delivered in time
\* order and discarded, the marker is set to the last message of the batch
chime_complete_messages(W, h) ==
    LET batch == SortByTime(W.chats[h].messages)
        W1 == [W EXCEPT !.chats[h].messages = {}, !.chats[h].gathering = FALSE,
                        !.chats[h].ready = @ + 1]
        W2 == DeliverAll(W1, h, batch)
    IN IF batch = <<>> THEN W2
       ELSE chime_update_last_msg(W2, W.chats[h].room, batch[Len(batch)])

\* the answer to a history page request: page.ok, page.ids, page.next
fetch_msgs_cb(W, h, page) ==
    LET W1 == [W EXCEPT !.chats[h].soup_msg = FALSE,
                        !.requests = @ \ {Request("msgs", h, W.chats[h].room, 0)}]
    IN IF ~page.ok
       THEN [W1 EXCEPT !.chats[h].pages = 0,
                       !.conv_log[W.chats[h].room] = Log(@, <<"fetch_failed", "msgs">>)]
       ELSE LET W2 == [W1 EXCEPT !.chats[h].messages = @ \cup page.ids,
                                 !.chats[h].pages = @ + 1]
            IN IF page.next THEN fetch_messages(W2, h)
               ELSE LET W3 == [W2 EXCEPT !.chats[h].msgs_done = TRUE, !.chats[h].pages = 0]
                    IN IF W3.chats[h].members_done
                       THEN chime_complete_messages(W3, h) ELSE W3

(***************************************************************************)
(* fetch_chat_memberships and fetch_members_cb                             *)
(***************************************************************************)
fetch_chat_memberships(W, h) ==
    [W EXCEPT !.chats[h].members_msg = TRUE,
              !.requests = @ \cup {Request("members", h, W.chats[h].room, 0)}]

RECURSIVE AddMembers(_, _, _)
AddMembers(W, h, nodes) ==
    IF nodes = <<>> THEN W
    ELSE AddMembers(add_chat_member(W, h, Head(nodes)).W, h, Tail(nodes))

\* page.node: the response was parsed (the callback gets NULL otherwise, and
\* reads no member and no NextToken from it); page.members; page.next
\* variant: the last page of the membership does not complete the messages
fetch_members_cb_no_complete(W, h, page) ==
    LET W1 == [W EXCEPT !.chats[h].members_msg = FALSE,
                        !.chats[h].mpages = @ + 1,
                        !.requests = @ \ {Request("members", h, W.chats[h].room, 0)}]
        W2 == IF page.node THEN AddMembers(W1, h, page.members)
              ELSE [W1 EXCEPT !.chats[h].members_failed = TRUE]
    IN IF page.node /\ page.next
       THEN fetch_chat_memberships(W2, h)
       ELSE [W2 EXCEPT !.chats[h].members_done = TRUE, !.chats[h].mpages = 0]

fetch_members_cb(W, h, page) ==
    LET W1 == [W EXCEPT !.chats[h].members_msg = FALSE,
                        !.chats[h].mpages = @ + 1,
                        !.requests = @ \ {Request("members", h, W.chats[h].room, 0)}]
        W2 == IF page.node THEN AddMembers(W1, h, page.members)
              ELSE [W1 EXCEPT !.chats[h].members_failed = TRUE]
    IN IF page.node /\ page.next
       THEN fetch_chat_memberships(W2, h)
       ELSE LET W3 == [W2 EXCEPT !.chats[h].members_done = TRUE, !.chats[h].mpages = 0]
            IN IF W3.chats[h].msgs_done
               THEN chime_complete_messages(W3, h) ELSE W3

(***************************************************************************)
(* The event channel: chime_jugg_subscribe, chime_jugg_unsubscribe.        *)
(***************************************************************************)
Sub(channel, type, cb, ctx) ==
    [channel |-> channel, type |-> type, cb |-> cb, ctx |-> ctx]

chime_jugg_subscribe(ss, sub) == Append(ss, sub)

chime_jugg_unsubscribe(ss, sub) ==
    IF \E i \in DOMAIN ss : ss[i] = sub
    THEN LET k == CHOOSE i \in DOMAIN ss : ss[i] = sub /\ \A j \in 1 .. (i - 1) : ss[j] # sub
         IN [i \in 1 .. (Len(ss) - 1) |-> IF i < k THEN ss[i] ELSE ss[i + 1]]
    ELSE ss

(***************************************************************************)
(* do_join_chat                                                            *)
(***************************************************************************)
NewChat(room, id) ==
    [room |-> room, conv |-> id, messages |-> {}, gathering |-> FALSE,
     soup_msg |-> FALSE, members_msg |-> FALSE, msgs_done |-> FALSE,
     members_done |-> FALSE, members |-> <<>>, users |-> <<>>, sent_msgs |-> {},
     pages |-> 0, mpages |-> 0, ready |-> 0, members_failed |-> FALSE]

\* variant: the counter of chat ids starts again when no chat is live
join_new_chat_restarts(W, room) ==
    LET id == IF DOMAIN W.live_chats = {} THEN 1 ELSE W.chat_id + 1
        W1 == [W EXCEPT
                 !.chat_id = id,
                 !.chats = (id :> NewChat(room, id)) @@ @,
                 !.live_chats = (id :> id) @@ @,
                 !.chats_by_room = (room :> id) @@ @,
                 !.delivered[room] = <<>>,
                 !.conv_log[room] = <<>>,
                 !.subs = chime_jugg_subscribe(
                             chime_jugg_subscribe(@,
                                 Sub(RoomChannel(room), "RoomMessage",
                                     "chat_msg_jugg_cb", id)),
                             Sub(RoomChannel(room), "RoomMembership",
                                 "chat_membership_jugg_cb", id))]
    IN [W |-> fetch_chat_memberships(fetch_messages(W1, id), id), chat |-> id]

\* the chat of room, created with its subscriptions and its two fetches
join_new_chat(W, room) ==
    LET id == W.chat_id + 1
        W1 == [W EXCEPT
                 !.chat_id = id,
                 !.chats = (id :> NewChat(room, id)) @@ @,
                 !.live_chats = (id :> id) @@ @,
                 !.chats_by_room = (room :> id) @@ @,
                 !.delivered[room] = <<>>,
                 !.conv_log[room] = <<>>,
                 !.subs = chime_jugg_subscribe(
                             chime_jugg_subscribe(@,
                                 Sub(RoomChannel(room), "RoomMessage",
                                     "chat_msg_jugg_cb", id)),
                             Sub(RoomChannel(room), "RoomMembership",
                                 "chat_membership_jugg_cb", id))]
    IN [W |-> fetch_chat_memberships(fetch_messages(W1, id), id), chat |-> id]

\* variant: chats_by_room is not looked up
do_join_chat_no_lookup(W, room) ==
    join_new_chat(W, room)

do_join_chat(W, room) ==
    IF room \in DOMAIN W.chats_by_room
    THEN [W |-> W, chat |-> W.chats_by_room[room]]
    ELSE join_new_chat(W, room)

(***************************************************************************)
(* chat_demuxing_jugg_cb: a RoomMessage event on the device channel.       *)
(***************************************************************************)
\* the rooms the connection knows: each has its marker in the account settings
RoomsOf(W) == DOMAIN W.last_msg

\* variant: the event that made the chat is not handed to chat_msg_jugg_cb
chat_demuxing_jugg_cb_drops(W, e) ==
    IF ~e.record THEN [W |-> W, handled |-> FALSE]
    ELSE IF e.room = "none" THEN [W |-> W, handled |-> FALSE]
    ELSE IF e.room \notin RoomsOf(W) THEN [W |-> W, handled |-> FALSE]
    ELSE IF e.room \in DOMAIN W.chats_by_room
    THEN chat_msg_jugg_cb(W, W.chats_by_room[e.room], e)
    ELSE [W |-> do_join_chat(W, e.room).W, handled |-> TRUE]

chat_demuxing_jugg_cb(W, e) ==
    IF ~e.record THEN [W |-> W, handled |-> FALSE]
    ELSE IF e.room = "none" THEN [W |-> W, handled |-> FALSE]
    ELSE IF e.room \notin RoomsOf(W) THEN [W |-> W, handled |-> FALSE]
    ELSE LET j == IF e.room \in DOMAIN W.chats_by_room
                  THEN [W |-> W, chat |-> W.chats_by_room[e.room]]
                  ELSE do_join_chat(W, e.room)
         IN chat_msg_jugg_cb(j.W, j.chat, e)

(***************************************************************************)
(* Dispatch of an event to the subscriptions of its channel and type, in   *)
(* registration order.                                                     *)
(***************************************************************************)
\* "observer" is the callback of another module: it changes nothing of the
\* chats and returns unhandled
Callback(W, sub, e) ==
    CASE sub.cb = "chat_msg_jugg_cb"        -> chat_msg_jugg_cb(W, sub.ctx, e)
      [] sub.cb = "chat_membership_jugg_cb" -> chat_membership_jugg_cb(W, sub.ctx, e)
      [] sub.cb = "chat_demuxing_jugg_cb"   -> chat_demuxing_jugg_cb(W, e)
      [] sub.cb = "observer"                -> [W |-> W, handled |-> FALSE]

\* variant: the dispatch ends at the first matching subscription
RECURSIVE Dispatch_first_match(_, _, _, _, _)
Dispatch_first_match(W, ss, channel, type, e) ==
    IF ss = <<>> THEN [W |-> W, calls |-> <<>>]
    ELSE LET sub == Head(ss)
         IN IF sub.channel = channel /\ sub.type = type
            THEN LET r == Callback(W, sub, e)
                 IN [W |-> r.W, calls |-> <<[sub |-> sub, handled |-> r.handled]>>]
            ELSE Dispatch_first_match(W, Tail(ss), channel, type, e)

\* the state after the dispatch of e to the subscriptions ss, and the
\* callbacks invoked, in order, each with what it returned
RECURSIVE Dispatch(_, _, _, _, _)
Dispatch(W, ss, channel, type, e) ==
    IF ss = <<>> THEN [W |-> W, calls |-> <<>>]
    ELSE LET sub == Head(ss)
         IN IF sub.channel = channel /\ sub.type = type
            THEN LET r == Callback(W, sub, e)
                     d == Dispatch(r.W, Tail(ss), channel, type, e)
                 IN [W |-> d.W,
                     calls |-> <<[sub |-> sub, handled |-> r.handled]>> \o d.calls]
            ELSE Dispatch(W, Tail(ss), channel, type, e)

Subscribed(channel, type) ==
    \E i \in DOMAIN subs : subs[i].channel = channel /\ subs[i].type = type

(***************************************************************************)
(* chime_destroy_chat                                                      *)
(***************************************************************************)
\* variant: the RoomMembership subscription of the room is kept
chime_destroy_chat_keeps_sub(W, h) ==
    LET room == W.chats[h].room
    IN [W EXCEPT
          !.requests = {IF r.chat = h /\ r.kind \in {"msgs", "members"}
                        THEN [r EXCEPT !.cancelled = TRUE] ELSE r : r \in @},
          !.subs = chime_jugg_unsubscribe(@,
                      Sub(RoomChannel(room), "RoomMessage", "chat_msg_jugg_cb", h)),
          !.conv_log[room] = Log(<<>>, <<"chat_left", "">>),
          !.delivered[room] = <<>>,
          !.sends.answered = {a \in @ : a[1] # h},
          !.live_chats = Drop(@, W.chats[h].conv),
          !.chats_by_room = Drop(@, room),
          !.chats = Drop(@, h)]

chime_destroy_chat(W, h) ==
    LET room == W.chats[h].room
    IN [W EXCEPT
          \* soup_session_cancel_message for the history and membership requests
          !.requests = {IF r.chat = h /\ r.kind \in {"msgs", "members"}
                        THEN [r EXCEPT !.cancelled = TRUE] ELSE r : r \in @},
          !.subs = chime_jugg_unsubscribe(
                      chime_jugg_unsubscribe(@,
                          Sub(RoomChannel(room), "RoomMessage", "chat_msg_jugg_cb", h)),
                      Sub(RoomChannel(room), "RoomMembership",
                          "chat_membership_jugg_cb", h)),
          !.conv_log[room] = Log(<<>>, <<"chat_left", "">>),
          \* the session of the room is over
          !.delivered[room] = <<>>,
          !.sends.answered = {a \in @ : a[1] # h},
          !.live_chats = Drop(@, W.chats[h].conv),
          !.chats_by_room = Drop(@, room),
          !.chats = Drop(@, h)]

(***************************************************************************)
(* send_msg_cb: the answer to the POST of chime_purple_chat_send.          *)
(* resp.ok: the status is successful; resp.msgnode: the response has a     *)
(* Message member; resp.id: its MessageId.                                 *)
(***************************************************************************)
\* the marker is at least as new as the message
AlreadySeen(W, room, m) ==
    LET seen == chime_read_last_msg(W, room)
    IN seen # NoMarker /\ seen.time >= CreatedOn(m)

\* variant: a response that is skipped still puts the id into sent_msgs
send_msg_cb_records_skipped(W, h, resp) ==
    LET room == W.chats[h].room
    IN IF ~resp.ok
       THEN [W EXCEPT !.conv_log[room] = Log(@, <<"send_failed", "">>)]
       ELSE IF ~resp.msgnode THEN W
       ELSE IF AlreadySeen(W, room, resp.id)
       THEN [W EXCEPT !.chats[h].sent_msgs = @ \cup {resp.id}]
       ELSE parse_incoming_msg([W EXCEPT !.chats[h].sent_msgs = @ \cup {resp.id}],
                               h, resp.id)

\* variant: an unsuccessful response is not reported
send_msg_cb_silent(W, h, resp) ==
    LET room == W.chats[h].room
    IN IF ~resp.ok
       THEN W
       ELSE IF ~resp.msgnode THEN W
       ELSE IF AlreadySeen(W, room, resp.id) THEN W
       ELSE parse_incoming_msg([W EXCEPT !.chats[h].sent_msgs = @ \cup {resp.id}],
                               h, resp.id)

\* variant: the id of the delivered message is not put into sent_msgs
send_msg_cb_no_record(W, h, resp) ==
    LET room == W.chats[h].room
    IN IF ~resp.ok
       THEN [W EXCEPT !.conv_log[room] = Log(@, <<"send_failed", "">>)]
       ELSE IF ~resp.msgnode THEN W
       ELSE IF AlreadySeen(W, room, resp.id) THEN W
       ELSE parse_incoming_msg(W, h, resp.id)

send_msg_cb(W, h, resp) ==
    LET room == W.chats[h].room
    IN IF ~resp.ok
       THEN [W EXCEPT !.conv_log[room] = Log(@, <<"send_failed", "">>)]
       ELSE IF ~resp.msgnode THEN W
       ELSE IF AlreadySeen(W, room, resp.id) THEN W
       ELSE parse_incoming_msg([W EXCEPT !.chats[h].sent_msgs = @ \cup {resp.id}],
                               h, resp.id)

(***************************************************************************)
(* The steps of the chat rooms.                                            *)
(***************************************************************************)
chime_init_chats(rooms) ==
    /\ chat_id = 0
    /\ chats = <<>>
    /\ live_chats = <<>>
    /\ chats_by_room = <<>>
    \* chime_init_chats
    /\ subs = <<Sub(DeviceChannel, "RoomMessage", "chat_demuxing_jugg_cb", 0)>>
    /\ last_msg = [room \in rooms |-> NoMarker]
    /\ requests = {}
    /\ delivered = [room \in rooms |-> <<>>]
    /\ conv_log = [room \in rooms |-> <<>>]
    /\ sends = [n |-> 0, answered |-> {}]
    /\ stale_cbs = {}
    /\ published = {}
    /\ calls = <<>>
    /\ last_record = <<>>

ChatInit == chime_init_chats(Rooms)

\* the chats an account makes at most: MaxJoins for its first room and one
\* more for each further room
JoinCap == MaxJoins + Cardinality(RoomsOf(World)) - 1

\* chime_connection_room_by_id
chime_connection_room_by_id(roomid) ==
    IF roomid \in RoomsOf(World) THEN roomid ELSE "none"

chime_purple_join_chat(roomid) ==
    LET room == chime_connection_room_by_id(roomid)
    IN /\ room # "none"
       /\ room \in DOMAIN chats_by_room \/ chat_id < JoinCap
       /\ SetWorld(do_join_chat(World, room).W)
       /\ stale_cbs' = {} /\ UNCHANGED published

chime_purple_chat_leave(id) ==
    /\ SetWorld(chime_destroy_chat(World, live_chats[id]))
    /\ stale_cbs' = {} /\ UNCHANGED published

\* the ids this client has met so far, in a page, an event or a response
KnownIds ==
    {m \in MsgIds :
        \/ \E c \in {"room", "device"} : <<c, m>> \in published
        \/ \E h \in DOMAIN chats : m \in chats[h].messages
        \/ \E room \in Rooms : \E i \in DOMAIN delivered[room] : delivered[room][i] = m
        \/ \E room \in Rooms : last_msg[room].id = m
        \/ \E r \in requests : r.kind = "send" /\ r.n = m}

\* the ids the server can give to a message created now: later than everything met
FreshIds == {m \in MsgIds : \A k \in KnownIds : CreatedOn(k) < CreatedOn(m)}

\* the POST of a message to the room of chat id; the server will call it m
chime_purple_chat_send(id, m) ==
    LET h == live_chats[id]
    IN /\ sends.n < MaxSends
       /\ requests' = requests \cup {Request("send", h, chats[h].room, m)}
       /\ sends' = [sends EXCEPT !.n = @ + 1]
       /\ UNCHANGED <<chat_id, chats, live_chats, chats_by_room, subs, last_msg,
                      delivered, conv_log, published>>
       /\ stale_cbs' = {}

HistoryPages(h) ==
    {p \in [ok : BOOLEAN, ids : SUBSET MsgIds, next : BOOLEAN] :
        /\ ~p.ok => (p.ids = {} /\ ~p.next)
        /\ p.next => chats[h].pages + 1 < MaxPages}

MemberPages(h) ==
    {p \in [node : BOOLEAN, members : {<<>>} \cup {<<n>> : n \in MemberNodes},
            next : BOOLEAN] :
        /\ ~p.node => (p.members = <<>> /\ ~p.next)
        /\ p.next => chats[h].mpages + 1 < MaxPages}

SendResponses(m) ==
    {r \in [ok : BOOLEAN, msgnode : BOOLEAN, id : {0, m}] :
        /\ ~r.ok => ~r.msgnode
        /\ r.msgnode <=> r.id = m}

Pending(kind) == {r \in requests : r.kind = kind /\ ~r.cancelled}
Cancelled == {r \in requests : r.cancelled}
Orphaned == {r \in requests : r.kind = "send" /\ r.chat \notin DOMAIN chats}

fetch_msgs_response(req, page) ==
    /\ SetWorld(fetch_msgs_cb(World, req.chat, page))
    /\ stale_cbs' = {} /\ UNCHANGED published

fetch_members_response(req, page) ==
    /\ SetWorld(fetch_members_cb(World, req.chat, page))
    /\ stale_cbs' = {} /\ UNCHANGED published

send_msg_response(req, resp) ==
    LET W1 == send_msg_cb(World, req.chat, resp)
    IN /\ SetWorld([W1 EXCEPT !.requests = @ \ {req},
                              !.sends.answered =
                                  IF resp.msgnode THEN @ \cup {<<req.chat, resp.id>>} ELSE @])
       /\ stale_cbs' = {} /\ UNCHANGED published

\* the completion of a request whose chat has been freed by chime_destroy_chat:
\* the callback runs with the pointer of the freed chat
stale_response(req) ==
    /\ requests' = requests \ {req}
    /\ stale_cbs' = {req.kind}
    /\ UNCHANGED <<chat_id, chats, live_chats, chats_by_room, subs, last_msg,
                   delivered, conv_log, sends, published>>

\* a RoomMessage event on the channel of a room
room_message_event(room, e) ==
    /\ ws_conn = "open"
    /\ e.id # 0 => <<"room", e.id>> \notin published
    /\ published' = IF e.id # 0 THEN published \cup {<<"room", e.id>>} ELSE published
    /\ SetWorld(Dispatch(World, subs, RoomChannel(room), "RoomMessage", e).W)
    /\ stale_cbs' = {}

\* a RoomMessage event on the channel of this device
device_message_event(e) ==
    /\ ws_conn = "open"
    /\ e.id # 0 => <<"device", e.id>> \notin published
    /\ (e.room \in RoomsOf(World) /\ e.room \notin DOMAIN chats_by_room) => chat_id < JoinCap
    /\ published' = IF e.id # 0 THEN published \cup {<<"device", e.id>>} ELSE published
    /\ SetWorld(Dispatch(World, subs, DeviceChannel, "RoomMessage", e).W)
    /\ stale_cbs' = {}

MembershipEvents ==
    {[record |-> TRUE, node |-> n] : n \in MemberNodes}
        \cup {[record |-> FALSE, node |-> CHOOSE n \in MemberNodes : ~n.member]}

room_membership_event(room, e) ==
    /\ ws_conn = "open"
    /\ SetWorld(Dispatch(World, subs, RoomChannel(room), "RoomMembership", e).W)
    /\ stale_cbs' = {} /\ UNCHANGED published

ChatNext ==
    \/ \E roomid \in Rooms : chime_purple_join_chat(roomid) /\ UNCHANGED not_chat_vars
    \/ \E id \in DOMAIN live_chats : chime_purple_chat_leave(id)
            /\ UNCHANGED not_chat_vars
    \/ \E id \in DOMAIN live_chats : \E m \in FreshIds : chime_purple_chat_send(id, m)
            /\ UNCHANGED not_chat_vars
    \/ \E req \in Pending("msgs") : \E page \in HistoryPages(req.chat) :
            fetch_msgs_response(req, page) /\ UNCHANGED not_chat_vars
    \/ \E req \in Pending("members") : \E page \in MemberPages(req.chat) :
            fetch_members_response(req, page) /\ UNCHANGED not_chat_vars
    \/ \E req \in Pending("send") \ Orphaned : \E resp \in SendResponses(req.n) :
            send_msg_response(req, resp) /\ UNCHANGED not_chat_vars
    \/ \E req \in Cancelled \cup Orphaned : stale_response(req)
            /\ UNCHANGED not_chat_vars
    \/ \E room \in Rooms : \E e \in {x \in MessageEvents : x.record => x.room = room} :
            Subscribed(RoomChannel(room), "RoomMessage") /\ room_message_event(room, e)
            /\ UNCHANGED not_chat_vars
    \/ \E e \in MessageEvents : device_message_event(e) /\ UNCHANGED not_chat_vars
    \/ \E room \in Rooms : \E e \in MembershipEvents :
            Subscribed(RoomChannel(room), "RoomMembership") /\ room_membership_event(room, e)
            /\ UNCHANGED not_chat_vars

\* the connection is up: registered, event channel open, no request pending
Connected ==
    /\ cxn = "alive"
    /\ session_token = 1
    /\ msg_queue = <<>>
    /\ ws_conn = "open"
    /\ conn_state = "connected"
    /\ conn_error = FALSE

(***************************************************************************)
(* The mentions in the text of a message (src/chat.c).                     *)
(*                                                                         *)
(* A text is a sequence of characters. After g_markup_escape_text the      *)
(* characters "<" and ">" are the entities "&lt;" and "&gt;", one element   *)
(* each; "<b>" and "</b>" are the markup of MENTION_REPLACEMENT.           *)
(***************************************************************************)
AtAll == <<"@", "a", "l", "l">>
AtPresent == <<"@", "p", "r", "e", "s", "e", "n", "t">>
AllMembers == <<"A", "l", "l", " ", "M", "e", "m", "b", "e", "r", "s">>
PresentMembers ==
    <<"P", "r", "e", "s", "e", "n", "t", " ", "M", "e", "m", "b", "e", "r", "s">>

\* "<@id|name>"
ChimeMention(id, name) == <<"<", "@">> \o id \o <<"|">> \o name \o <<">">>

\* the members a table may hold: no display name is part of another
MentionMembers ==
    {chat_member(<<"u", "1">>, "e1", <<"A", "l">>),
     chat_member(<<"u", "2">>, "e2", <<"B", "o">>)}

\* the tables, each in the order g_hash_table_foreach visits it
MemberTables ==
    {<<>>} \cup {<<m>> : m \in MentionMembers}
           \cup {t \in MentionMembers \X MentionMembers : t[1] # t[2]}

Pieces == {AtAll, AtPresent, <<"A", "l">>, <<"B", "o">>, <<"x">>, <<" ">>}

RECURSIVE Texts(_)
Texts(n) ==
    IF n = 0 THEN {<<>>}
    ELSE Texts(n - 1) \cup {t \o p : t \in Texts(n - 1), p \in Pieces}

\* replace: g_strsplit at every occurrence of a, g_strjoinv with b
RECURSIVE replace(_, _, _)
replace(dst, a, b) ==
    IF Len(dst) < Len(a) THEN dst
    ELSE IF SubSeq(dst, 1, Len(a)) = a
    THEN b \o replace(SubSeq(dst, Len(a) + 1, Len(dst)), a, b)
    ELSE <<Head(dst)>> \o replace(Tail(dst), a, b)

\* g_hash_table_foreach(members, expand_member_cb, &parsed)
RECURSIVE expand_members(_, _)
expand_members(parsed, members) ==
    IF members = <<>> THEN parsed
    ELSE LET member == Head(members)
         IN expand_members(replace(parsed, member.display_name,
                                   ChimeMention(member.id, member.display_name)),
                           Tail(members))

parse_outbound_mentions(members, message) ==
    expand_members(replace(replace(message, AtAll, ChimeMention(<<"a", "l", "l">>, AllMembers)),
                           AtPresent,
                           ChimeMention(<<"p", "r", "e", "s", "e", "n", "t">>, PresentMembers)),
                   members)

\* g_markup_escape_text, for the characters of the texts here
g_markup_escape_text(text) ==
    [i \in DOMAIN text |-> CASE text[i] = "<" -> "&lt;"
                             [] text[i] = ">" -> "&gt;"
                             [] OTHER -> text[i]]

\* [\w\-]
WordChars ==
    {"a", "b", "e", "l", "n", "o", "p", "r", "s", "t", "u", "x",
     "A", "B", "M", "P", "1", "2", "-"}

\* a match of MENTION_PATTERN at the head of text: the length of the match and
\* the range of its second group; len 0 is no match
MentionMatch(text) ==
    IF Len(text) < 2 \/ text[1] # "&lt;" \/ text[2] # "@"
    THEN [len |-> 0, from |-> 0, to |-> 0]
    ELSE LET idend == CHOOSE k \in 2 .. Len(text) :
                         /\ \A j \in 3 .. k : text[j] \in WordChars
                         /\ k = Len(text) \/ text[k + 1] \notin WordChars
             closes == {k \in (idend + 2) .. Len(text) : text[k] = "&gt;"}
         IN IF idend = 2 \/ idend = Len(text) \/ text[idend + 1] # "|" \/ closes = {}
            THEN [len |-> 0, from |-> 0, to |-> 0]
            ELSE LET close == CHOOSE k \in closes : \A j \in closes : k <= j
                 IN [len |-> close, from |-> idend + 2, to |-> close - 1]

\* g_regex_replace(mention_regex, message, MENTION_REPLACEMENT)
RECURSIVE g_regex_replace(_)
g_regex_replace(text) ==
    IF text = <<>> THEN <<>>
    ELSE LET m == MentionMatch(text)
         IN IF m.len = 0 THEN <<Head(text)>> \o g_regex_replace(Tail(text))
            ELSE <<"<b>">> \o SubSeq(text, m.from, m.to) \o <<"</b>">>
                   \o g_regex_replace(SubSeq(text, m.len + 1, Len(text)))

\* the text parse_inbound_mentions returns in *parsed
parse_inbound_mentions(message) == g_regex_replace(message)

\* a message was typed in a room with this table
MentionInputs ==
    {[message |-> t, members |-> ms, wire |-> <<>>, shown |-> <<>>, stage |-> "typed"] :
        t \in Texts(MaxPieces), ms \in MemberTables}

\* no message is on its way
\* purple_chime_init_meetings does nothing: the zeroed struct purple_chime
MeetingInit ==
    /\ purple_chime = "alive"
    /\ joinable_handle = "NULL"
    /\ joinable_refresh_id = 0
    /\ sources = <<>>
    /\ meetings = <<>>
    /\ rows = {}

AsideInit ==
    /\ mention = [message |-> <<>>, members |-> <<>>, wire |-> <<>>,
                  shown |-> <<>>, stage |-> "none"]
    /\ MeetingInit

\* chime_purple_chat_send builds the Content of the POST from the unescaped
\* text
expand_outbound ==
    /\ mention.stage = "typed"
    /\ mention' = [mention EXCEPT
                     !.wire = parse_outbound_mentions(mention.members, mention.message),
                     !.stage = "sent"]

\* the message comes back and parse_incoming_msg shows it
show_inbound ==
    /\ mention.stage = "sent"
    /\ mention' = [mention EXCEPT !.shown = LET escaped == g_markup_escape_text(mention.wire)
                                            IN parse_inbound_mentions(escaped),
                                  !.stage = "shown"]

\* after construction: no connection, no chat
ConnStart == ConnInit /\ ChatInit /\ AsideInit

ConnSpec == ConnStart /\ [][ConnNext]_vars

\* the same, with a soup session that completes the renewal request queued
\* on it: renew_cb is eventually called
RenewSpec == ConnStart /\ [][ConnNext]_vars /\ WF_vars(renewal_answered)

(***************************************************************************)
(* on_websocket_closed: the "closed" signal of the websocket. The handler  *)
(* prints the close code and does nothing else.                            *)
(***************************************************************************)
\* variant: the handler asks for a new negotiation
on_websocket_closed_reconnects ==
    /\ cxn = "alive"
    /\ ws_conn = "open"
    /\ ws_conn' = "closed"
    /\ soup_msgs' = chime_queue_http_request(soup_msgs, "ws_cb")
    /\ UNCHANGED <<cxn, session_token, msg_queue, conn_state, conn_error,
                   parked_log, reissue_log, at_close>>

on_websocket_closed ==
    /\ cxn = "alive"
    /\ ws_conn = "open"
    /\ ws_conn' = "closed"
    /\ UNCHANGED <<cxn, session_token, msg_queue, soup_msgs, conn_state, conn_error,
                   parked_log, reissue_log, at_close>>

\* the state of the connection after login, registration and the upgrade of
\* the event channel, with the first token and nothing outstanding
Answered(m, tok) ==
    [NewMsg(m, tok) EXCEPT !.st = "finished", !.resp = "answered", !.done = <<"ok">>]

ConnectedInit ==
    /\ Connected
    /\ soup_msgs = (<<"register_cb", 1>> :> Answered("register_cb", 0))
                      @@ (<<"ws_cb", 1>> :> Answered("ws_cb", 1))
    /\ parked_log = <<>>
    /\ reissue_log = <<>>
    /\ at_close = [closed |-> FALSE, inflight |-> {}, parked |-> {}]

\* connected, chats initialised
ChatStart == ConnectedInit /\ ChatInit /\ AsideInit

ChatSpec == ChatStart /\ [][ChatNext]_vars

(***************************************************************************)
(* The event channel from the upgrade on: the upgrade ends, the websocket  *)
(* is lost, rooms are joined and left, events arrive.                      *)
(***************************************************************************)
\* the negotiation was answered and the upgrade is under way
NegotiatedInit ==
    /\ cxn = "alive"
    /\ session_token = 1
    /\ msg_queue = <<>>
    /\ ws_conn = "connecting"
    /\ conn_state = "connecting"
    /\ conn_error = FALSE
    /\ soup_msgs = (<<"register_cb", 1>> :> Answered("register_cb", 0))
                      @@ (<<"ws_cb", 1>> :> Answered("ws_cb", 1))
    /\ parked_log = <<>>
    /\ reissue_log = <<>>
    /\ at_close = [closed |-> FALSE, inflight |-> {}, parked |-> {}]

ChannelStart == NegotiatedInit /\ ChatInit /\ AsideInit

\* the subscriptions other modules may register: on the channels and types of
\* the chats, and on a type no chat subscribes to
ObserverSubs ==
    {Sub(RoomChannel(room), type, "observer", 0) :
        room \in Rooms, type \in {"RoomMessage", "RoomMembership"}}
      \cup {Sub(DeviceChannel, type, "observer", 0) : type \in {"RoomMessage", "Room"}}

Observers == {i \in DOMAIN subs : subs[i].cb = "observer"}

observer_subscribe(sub) ==
    /\ Cardinality(Observers) < MaxObservers
    /\ subs' = chime_jugg_subscribe(subs, sub)
    /\ UNCHANGED <<chat_id, chats, live_chats, chats_by_room, last_msg, requests,
                   delivered, conv_log, sends, published>>
    /\ stale_cbs' = {}

ChannelNext ==
    \/ (\E ok \in BOOLEAN : ws2_cb(ok)) /\ UNCHANGED not_conn_vars
    \/ on_websocket_closed /\ UNCHANGED not_conn_vars
    \/ (\E roomid \in Rooms : chime_purple_join_chat(roomid))
           /\ UNCHANGED not_chat_vars
    \/ (\E id \in DOMAIN live_chats : chime_purple_chat_leave(id))
           /\ UNCHANGED not_chat_vars
    \/ (\E sub \in ObserverSubs : observer_subscribe(sub))
           /\ UNCHANGED not_chat_vars
    \/ /\ \E room \in Rooms : \E e \in {x \in MessageEvents : x.record => x.room = room} :
             /\ Subscribed(RoomChannel(room), "RoomMessage")
             /\ room_message_event(room, e)
             /\ calls' = Dispatch(World, subs, RoomChannel(room), "RoomMessage", e).calls
       /\ UNCHANGED <<conn_vars, last_record, aside_vars>>
    \/ /\ \E e \in MessageEvents :
             /\ device_message_event(e)
             /\ calls' = Dispatch(World, subs, DeviceChannel, "RoomMessage", e).calls
       /\ UNCHANGED <<conn_vars, last_record, aside_vars>>
    \/ /\ \E room \in Rooms : \E e \in MembershipEvents :
             /\ Subscribed(RoomChannel(room), "RoomMembership")
             /\ room_membership_event(room, e)
             /\ calls' = Dispatch(World, subs, RoomChannel(room), "RoomMembership", e).calls
       /\ UNCHANGED <<conn_vars, last_record, aside_vars>>

ChannelSpec == ChannelStart /\ [][ChannelNext]_vars

(***************************************************************************)
(* The membership of the rooms: rooms are joined and left, the pages of    *)
(* the history and of the membership arrive, and the live membership       *)
(* events.                                                                 *)
(***************************************************************************)
\* the HTTP session answers a pending page request of a history
history_page_answered ==
    /\ \E req \in Pending("msgs") : \E page \in HistoryPages(req.chat) :
          fetch_msgs_response(req, page)
    /\ UNCHANGED not_chat_vars

\* the HTTP session answers a pending page request of a membership
members_page_answered ==
    /\ \E req \in Pending("members") : \E page \in MemberPages(req.chat) :
          /\ fetch_members_response(req, page)
          /\ last_record' =
                 IF /\ page.node /\ page.members # <<>>
                    /\ add_chat_member(World, req.chat, Head(page.members)).ok
                 THEN <<Head(page.members)>> ELSE last_record
    /\ UNCHANGED <<conn_vars, calls, aside_vars>>

MembershipNext ==
    \/ (\E roomid \in Rooms : chime_purple_join_chat(roomid))
           /\ UNCHANGED not_chat_vars
    \/ (\E id \in DOMAIN live_chats : chime_purple_chat_leave(id))
           /\ UNCHANGED not_chat_vars
    \/ history_page_answered
    \/ members_page_answered
    \/ (\E req \in Cancelled : stale_response(req))
           /\ UNCHANGED not_chat_vars
    \/ /\ \E room \in Rooms : \E e \in MembershipEvents :
             /\ Subscribed(RoomChannel(room), "RoomMembership")
             /\ room_membership_event(room, e)
             /\ last_record' =
                    IF chat_membership_jugg_cb(World, chats_by_room[room], e).handled
                    THEN <<e.node>> ELSE last_record
       /\ UNCHANGED <<conn_vars, calls, aside_vars>>

MembershipSpec == ChatStart /\ [][MembershipNext]_vars

\* the same, with an HTTP session that completes every message queued on it:
\* the callback of a pending request is eventually called
LoadSpec ==
    /\ ChatStart /\ [][MembershipNext]_vars
    /\ WF_vars(history_page_answered)
    /\ WF_vars(members_page_answered)

(***************************************************************************)
(* The text of a message: typed, expanded for the wire, shown again.       *)
(***************************************************************************)
MentionStart == ConnectedInit /\ ChatInit /\ mention \in MentionInputs /\ MeetingInit

MentionNext ==
    \/ expand_outbound /\ UNCHANGED <<conn_vars, chat_vars, log_vars, meeting_vars>>
    \/ show_inbound /\ UNCHANGED <<conn_vars, chat_vars, log_vars, meeting_vars>>

MentionSpec == MentionStart /\ [][MentionNext]_vars

(***************************************************************************)
(* The two registries of an account with two rooms: joins, leaves, events  *)
(* of the device channel that make a chat, and the end of the connection.  *)
(***************************************************************************)
MoreRooms == {"room1", "room2"}

\* RoomMessage records of the device channel for the rooms of this account
RegistryEvents ==
    [record : {TRUE}, id : 0 .. MaxMsgs, room : MoreRooms \cup {"unknown"}]

\* the device subscription is there from chime_init_chats to chime_destroy_chats
chime_destroy_chats ==
    /\ Subscribed(DeviceChannel, "RoomMessage")
    /\ SetWorld([World EXCEPT
                   !.live_chats = <<>>,
                   !.chats_by_room = <<>>,
                   !.subs = chime_jugg_unsubscribe(@,
                               Sub(DeviceChannel, "RoomMessage",
                                   "chat_demuxing_jugg_cb", 0))])
    /\ stale_cbs' = {} /\ UNCHANGED published

RegistryStart == ConnectedInit /\ chime_init_chats(MoreRooms) /\ AsideInit

RegistryNext ==
    \/ \E roomid \in MoreRooms :
            Subscribed(DeviceChannel, "RoomMessage") /\ chime_purple_join_chat(roomid)
            /\ UNCHANGED not_chat_vars
    \/ \E id \in DOMAIN live_chats : chime_purple_chat_leave(id)
            /\ UNCHANGED not_chat_vars
    \/ \E e \in RegistryEvents : device_message_event(e) /\ UNCHANGED not_chat_vars
    \/ chime_destroy_chats /\ UNCHANGED not_chat_vars

RegistrySpec == RegistryStart /\ [][RegistryNext]_vars

(***************************************************************************)
(* The joinable-meetings dialog (src/prpl/meeting.c): the dialog, the idle *)
(* source that refreshes its rows, and the signals of the meetings.        *)
(***************************************************************************)
Meetings == {"mtg1", "mtg2"}

\* the state the handlers of the dialog work on, as one record
Joinable ==
    [handle |-> joinable_handle, refresh_id |-> joinable_refresh_id,
     sources |-> sources, meetings |-> meetings, rows |-> rows]

SetJoinable(M) ==
    /\ joinable_handle' = M.handle
    /\ joinable_refresh_id' = M.refresh_id
    /\ sources' = M.sources
    /\ meetings' = M.meetings
    /\ rows' = M.rows

\* the idle sources the main loop will still run
PendingSources(srcs) == {id \in DOMAIN srcs : srcs[id] = "pending"}

\* pc->joinable_refresh_id = g_idle_add(update_joinable, conn)
g_idle_add(M) ==
    [M EXCEPT !.sources = Append(@, "pending"), !.refresh_id = Len(M.sources) + 1]

g_source_remove(M, id) ==
    IF id \in PendingSources(M.sources)
    THEN [M EXCEPT !.sources[id] = "removed"] ELSE M

\* the idle callback of source id: it returns FALSE, which ends the source
update_joinable(M, id) ==
    [M EXCEPT !.rows = DOMAIN M.meetings,
              !.refresh_id = 0,
              !.sources[id] = "ran"]

\* variant: a change schedules a refresh whether or not one is scheduled
on_meeting_changed_reschedules(M) ==
    IF M.handle # "NULL" THEN g_idle_add(M) ELSE M

on_meeting_changed(M) ==
    IF M.handle # "NULL" /\ M.refresh_id = 0 THEN g_idle_add(M) ELSE M

\* g_signal_connect for every meeting of the connection
sub_all(M) == [M EXCEPT !.meetings = [m \in DOMAIN @ |-> @[m] + 1]]

joinable_closed_cb(M) ==
    LET M1 == IF M.refresh_id # 0
              THEN [g_source_remove(M, M.refresh_id) EXCEPT !.refresh_id = 0]
              ELSE M
    IN [M1 EXCEPT !.handle = "NULL", !.rows = {},
                  \* unsub_mtg for every meeting of the connection
                  !.meetings = [m \in DOMAIN @ |-> 0]]

\* count is what chime_connection_foreach_meeting counts
on_meeting_ended(M, count) ==
    IF M.handle = "NULL" THEN M
    ELSE IF count = 0
    THEN LET M1 == IF M.refresh_id # 0 THEN g_source_remove(M, M.refresh_id) ELSE M
             \* purple_notify_close closes the dialog and calls its close callback
             M2 == joinable_closed_cb([M1 EXCEPT !.refresh_id = 0])
         IN [M2 EXCEPT !.handle = "NULL"]
    ELSE IF M.refresh_id = 0 THEN g_idle_add(M)
    ELSE M

\* mtg "none" is the NULL of chime_purple_show_joinable; pin says that the
\* meeting matches a PIN join, ok that the host could make the dialog
on_chime_new_meeting(M, mtg, pin, ok) ==
    IF M.handle # "NULL"
    THEN LET M1 == IF mtg # "none" THEN [M EXCEPT !.meetings[mtg] = @ + 1] ELSE M
         IN IF M1.refresh_id = 0 THEN g_idle_add(M1) ELSE M1
    ELSE IF mtg # "none" /\ pin THEN M
    ELSE LET M1 == IF ok THEN [M EXCEPT !.handle = "dialog", !.rows = DOMAIN M.meetings]
                   ELSE joinable_closed_cb(M)
         IN sub_all(M1)

\* a signal of a meeting calls its handler once for each connection made
RECURSIVE emit_changed(_, _)
emit_changed(M, n) ==
    IF n = 0 THEN M ELSE emit_changed(on_meeting_changed(M), n - 1)

\* a handler that was disconnected during the emission is not called
RECURSIVE emit_ended(_, _, _, _)
emit_ended(M, mtg, n, count) ==
    IF n = 0 THEN M
    ELSE IF mtg \in DOMAIN M.meetings /\ M.meetings[mtg] = 0 THEN M
    ELSE emit_ended(on_meeting_ended(M, count), mtg, n - 1, count)

\* the steps: every one that may schedule a refresh is capped by MaxSources
new_meeting(mtg, pin, ok) ==
    /\ purple_chime = "alive"
    /\ Len(sources) < MaxSources
    /\ mtg \notin DOMAIN meetings
    /\ SetJoinable(on_chime_new_meeting([Joinable EXCEPT !.meetings = (mtg :> 0) @@ @],
                                        mtg, pin, ok))
    /\ UNCHANGED purple_chime

\* chime_purple_show_joinable: the account action
show_joinable(ok) ==
    /\ purple_chime = "alive"
    /\ Len(sources) < MaxSources
    /\ SetJoinable(on_chime_new_meeting(Joinable, "none", FALSE, ok))
    /\ UNCHANGED purple_chime

\* the name or the passcode of a meeting changes
meeting_changed(mtg) ==
    /\ purple_chime = "alive"
    /\ Len(sources) < MaxSources
    /\ SetJoinable(emit_changed(Joinable, meetings[mtg]))
    /\ UNCHANGED purple_chime

\* a meeting ends: listed says whether the connection still lists it while
\* its "ended" signal is emitted
meeting_ended(mtg, listed) ==
    /\ purple_chime = "alive"
    /\ Len(sources) < MaxSources
    /\ LET n == meetings[mtg]
           M == IF listed THEN Joinable
                ELSE [Joinable EXCEPT !.meetings = Drop(@, mtg)]
           M1 == emit_ended(M, mtg, n, Cardinality(DOMAIN M.meetings))
       IN SetJoinable([M1 EXCEPT !.meetings = Drop(@, mtg)])
    /\ UNCHANGED purple_chime

\* the main loop is idle and runs a pending source
refresh_runs(id) ==
    /\ purple_chime = "alive"
    /\ SetJoinable(update_joinable(Joinable, id))
    /\ UNCHANGED purple_chime

\* the user closes the dialog
dialog_closed ==
    /\ purple_chime = "alive"
    /\ joinable_handle # "NULL"
    /\ SetJoinable(joinable_closed_cb(Joinable))
    /\ UNCHANGED purple_chime

purple_chime_destroy_meetings ==
    /\ purple_chime = "alive"
    /\ SetJoinable(IF joinable_handle # "NULL" THEN joinable_closed_cb(Joinable)
                   ELSE Joinable)
    /\ purple_chime' = "destroyed"

MeetingStart == ConnectedInit /\ ChatInit /\ AsideInit

MeetingNext ==
    \/ \E mtg \in DOMAIN meetings : meeting_changed(mtg)
            /\ UNCHANGED <<conn_vars, chat_vars, log_vars, mention>>
    \/ \E mtg \in Meetings : \E pin, ok \in BOOLEAN : new_meeting(mtg, pin, ok)
            /\ UNCHANGED <<conn_vars, chat_vars, log_vars, mention>>
    \/ \E ok \in BOOLEAN : show_joinable(ok)
            /\ UNCHANGED <<conn_vars, chat_vars, log_vars, mention>>
    \/ \E mtg \in DOMAIN meetings : \E listed \in BOOLEAN : meeting_ended(mtg, listed)
            /\ UNCHANGED <<conn_vars, chat_vars, log_vars, mention>>
    \/ \E id \in PendingSources(sources) : refresh_runs(id)
            /\ UNCHANGED <<conn_vars, chat_vars, log_vars, mention>>
    \/ dialog_closed /\ UNCHANGED <<conn_vars, chat_vars, log_vars, mention>>
    \/ purple_chime_destroy_meetings
            /\ UNCHANGED <<conn_vars, chat_vars, log_vars, mention>>

MeetingSpec == MeetingStart /\ [][MeetingNext]_vars



(***************************************************************************)
(* Properties of the delivery of room messages to the host.                *)
(***************************************************************************)
Occurrences(s, x) == Cardinality({i \in DOMAIN s : s[i] = x})

EchoArrived(m) == \E c \in {"room", "device"} : <<c, m>> \in published

\* C1: between join and leave every message id is delivered to the host
\* once, whatever the interleaving of history pages and live events on the
\* room channel and on the device channel (no message was sent from here)
C1_DeliveredOncePerRoom ==
    sends.n = 0 =>
        \A room \in Rooms : \A m \in MsgIds : Occurrences(delivered[room], m) <= 1

\* C2: a message sent from here whose POST succeeded and whose echo has
\* arrived has been delivered to the host exactly once, as soon as the room
\* is not gathering its history
C2_SentDeliveredOnce ==
    \A a \in sends.answered :
        (a[1] \in DOMAIN chats /\ ~chats[a[1]].gathering /\ EchoArrived(a[2]))
            => Occurrences(delivered[chats[a[1]].room], a[2]) = 1

\* C3: the timestamps of the messages delivered to the host of a room never
\* decrease
C3_TimestampsNonDecreasing ==
    \A room \in Rooms : \A i, j \in DOMAIN delivered[room] :
        i < j => CreatedOn(delivered[room][i]) <= CreatedOn(delivered[room][j])

\* C4: while the in-progress buffer of a room exists, nothing has been
\* delivered to the host of that room
C4_HistoryBatchThenLive ==
    \A h \in DOMAIN chats : chats[h].gathering => delivered[chats[h].room] = <<>>

(***************************************************************************)
(* Properties of the pending-renewal queue (ConnSpec).                     *)
(***************************************************************************)
QueueMsgs == [i \in 1 .. Len(msg_queue) |-> msg_queue[i].msg]
ReissuedMsgs == [i \in 1 .. Len(reissue_log) |-> reissue_log[i].msg]
OutstandingRenewals ==
    {m \in DOMAIN soup_msgs : soup_msgs[m].cb = "renew_cb" /\ soup_msgs[m].st = "queued"}
RenewalFailed ==
    \E m \in DOMAIN soup_msgs :
        soup_msgs[m].cb = "renew_cb" /\ soup_msgs[m].done = <<"conn_error">>

\* C5: requests that fail authentication before a renewal completes cause
\* exactly one renewal request, and a successful renewal re-issues every parked
\* request exactly once, in the order they were parked, with the cookie of the
\* new token, leaving the pending-renewal queue empty: while requests are
\* parked the queue holds them in parking order and one renewal request was
\* sent for them; once the renewal succeeded the queue is empty, the re-issued
\* messages are the parked ones in parking order, none twice, and each carries
\* the cookie of the token the renewal stored.
C5_RenewalReissuesInOrder ==
    cxn = "alive" =>
        /\ IF msg_queue # <<>>
           THEN QueueMsgs = parked_log
           ELSE ReissuedMsgs = parked_log
        /\ \A i, j \in DOMAIN parked_log : parked_log[i] = parked_log[j] => i = j
        /\ \A i \in DOMAIN reissue_log :
              /\ reissue_log[i].token = session_token
              /\ reissue_log[i].cookie = session_token
              /\ soup_msgs[reissue_log[i].msg].cookie = session_token
        /\ session_token > 0 =>
              NumMsgs("renew_cb") =
                  (session_token - 1) + (IF msg_queue # <<>> THEN 1 ELSE 0)
        /\ (msg_queue # <<>> /\ ~RenewalFailed) => Cardinality(OutstandingRenewals) = 1

\* three requests were parked during one renewal and re-issued by it
C5_Witness ==
    /\ cxn = "alive"
    /\ msg_queue = <<>>
    /\ Len(reissue_log) >= 3
    /\ \A i \in DOMAIN reissue_log : soup_msgs[reissue_log[i].msg].st = "queued"

\* C6: at most one renewal request is outstanding, it is outstanding only
\* while the pending-renewal queue holds a request, and the queue holds
\* exactly the parked messages (a 401 during a renewal only joins the queue).
C6_OneRenewalOutstanding ==
    /\ Cardinality(OutstandingRenewals) <= 1
    /\ cxn = "alive" =>
          /\ OutstandingRenewals # {} => msg_queue # <<>>
          /\ Range(QueueMsgs) = {m \in DOMAIN soup_msgs : soup_msgs[m].st = "parked"}
          /\ Len(msg_queue) = Cardinality(Range(QueueMsgs))

\* a renewal is outstanding and a second request joined the queue behind the first
C6_Witness ==
    /\ cxn = "alive"
    /\ Cardinality(OutstandingRenewals) = 1
    /\ Len(msg_queue) >= 2

\* C7 as stated: every request answered 401 is parked, is not completed with
\* an error and raises no connection error.
C7_Original ==
    \A m \in DOMAIN soup_msgs :
        soup_msgs[m].resp = "unauthorized" =>
            /\ soup_msgs[m].st \in {"parked", "dropped"}
            /\ soup_msgs[m].done = <<>> \/ soup_msgs[m].done[Len(soup_msgs[m].done)] = "ok"

\* C7 amended: a 401 parks the negotiation request and the requests of the
\* upper layers (no completion, no connection error, one renewal request
\* exists for the batch unless an earlier renewal failed), while a 401 on the
\* registration request or on the renewal request itself raises a connection
\* error.
C7_AuthFailureParks ==
    \A m \in DOMAIN soup_msgs :
        soup_msgs[m].resp = "unauthorized" =>
            IF soup_msgs[m].cb \in {"ws_cb", "rest_cb"}
            THEN /\ soup_msgs[m].st \in {"parked", "dropped"}
                 /\ "conn_error" \notin Range(soup_msgs[m].done)
                 /\ "failed" \notin Range(soup_msgs[m].done)
                 /\ NumMsgs("renew_cb") >= 1
                 /\ cxn = "alive" =>
                       /\ m \in Range(QueueMsgs)
                       /\ RenewalFailed \/ OutstandingRenewals # {}
            ELSE /\ soup_msgs[m].st = "finished"
                 /\ soup_msgs[m].done = <<"conn_error">>
                 /\ conn_error

\* the negotiation request and a request of the upper layers are both parked
C7_Witness ==
    /\ cxn = "alive"
    /\ <<"ws_cb", 1>> \in Range(QueueMsgs)
    /\ \E m \in Range(QueueMsgs) : m[1] = "rest_cb"
    /\ conn_error = FALSE

\* the step in which renew_cb ends a renewal request with a connection error
RenewalFailureStep ==
    \E m \in DOMAIN soup_msgs :
        /\ soup_msgs[m].cb = "renew_cb" /\ soup_msgs[m].st = "queued"
        /\ cxn' = "alive"
        /\ soup_msgs'[m].st = "finished"
        /\ soup_msgs'[m].done = <<"conn_error">>

\* C8: a failed renewal raises a connection error, leaves the stored token
\* unchanged and completes every parked request with failure, exactly once,
\* without re-issuing it.
C8_RenewalFailureFailsParked ==
    [][RenewalFailureStep =>
          /\ conn_error'
          /\ session_token' = session_token
          /\ msg_queue' = <<>>
          /\ \A i \in DOMAIN msg_queue :
                LET m == msg_queue[i].msg IN
                /\ soup_msgs'[m].st = "finished"
                /\ soup_msgs'[m].done = Append(soup_msgs[m].done, "failed")]_vars

\* C9: no request is parked a second time after it was re-issued: a message
\* renew_cb re-issued with the token of a renewal is never in the
\* pending-renewal queue again.
C9_ParkedAtMostOnce ==
    \A m \in DOMAIN soup_msgs :
        soup_msgs[m].reissued => soup_msgs[m].st \notin {"parked", "dropped"}

\* C10: once the connection is closed and every cancelled callback has run,
\* every request that was pending at the close, in flight or parked, was
\* completed with a cancelled failure exactly once; the pending-renewal queue
\* is empty and nothing is sent any more.
C10_CloseCancelsAllPending ==
    (at_close.closed /\ \A m \in DOMAIN soup_msgs : soup_msgs[m].st # "aborted") =>
        /\ msg_queue = <<>>
        /\ \A m \in at_close.inflight \cup at_close.parked :
              /\ Occurrences(soup_msgs[m].done, "cancelled") = 1
              /\ soup_msgs[m].st = "finished"

(***************************************************************************)
(* Properties of the chat sessions.                                        *)
(***************************************************************************)
FetchRequests(rs) == {r \in rs : r.kind \in {"msgs", "members"}}

\* C11: a step in which a room is joined before and after (a second join, an
\* automatic join by a device-channel RoomMessage, or any other step) keeps
\* the session of the room, the chat id counter, both registries and the
\* subscriptions, and starts no history or membership fetch
C11_JoinIsIdempotent ==
    [][\A room \in Rooms :
          (room \in DOMAIN chats_by_room /\ room \in DOMAIN chats_by_room')
              => /\ chats_by_room'[room] = chats_by_room[room]
                 /\ chat_id' = chat_id
                 /\ live_chats' = live_chats
                 /\ subs' = subs
                 /\ FetchRequests(requests') \subseteq FetchRequests(requests)]_vars

\* the one session of a room has met two RoomMessage events of the device
\* channel before any history page and any event of the room channel
C11_Witness ==
    /\ chat_id = 1
    /\ 1 \in DOMAIN chats
    /\ chats[1].messages = {1, 2}
    /\ chats[1].soup_msg
    /\ chats[1].pages = 0
    /\ published = {<<"device", 1>>, <<"device", 2>>}
    /\ Len(subs) = 3

\* the pagination of the history (of the membership) of chat h ran to its
\* last page: a page without next token was received, no request is out
HistoryExhausted(h) ==
    chats[h].msgs_done /\ ~chats[h].soup_msg
MembershipExhausted(h) ==
    chats[h].members_done /\ ~chats[h].members_msg /\ ~chats[h].members_failed

\* C12: a room that was declared ready was declared so once, and both its
\* history pagination and its membership pagination are exhausted
C12_ReadyOnlyWhenBothExhausted ==
    \A h \in DOMAIN chats :
        chats[h].ready > 0 =>
            /\ chats[h].ready = 1
            /\ HistoryExhausted(h)
            /\ MembershipExhausted(h)

\* C13: no completion callback of a history or membership request runs after
\* the room of the request was left
C13_NoCallbackAfterLeave ==
    \A kind \in {"msgs", "members"} : kind \notin stale_cbs

\* the send requests of chat h that this step completes
SendsCompleted(h) ==
    {r \in requests \ requests' : r.kind = "send" /\ r.chat = h}

SessionState ==
    CASE cxn = "freed"         -> "Closed"
      [] cxn = "none"          -> "NoSession"
      [] session_token = 0     -> "Registering"
      [] msg_queue # <<>>      -> "Renewing"
      [] OTHER                 -> "Active"

SessionTransitions ==
    {<<"NoSession", "Registering">>, <<"Registering", "Active">>,
     <<"Active", "Renewing">>, <<"Renewing", "Active">>,
     <<"Registering", "Closed">>, <<"Active", "Closed">>, <<"Renewing", "Closed">>}

RenewalOk(msgs) ==
    {m \in DOMAIN msgs : msgs[m].cb = "renew_cb" /\ msgs[m].done = <<"ok">>}

\* C15: the session state changes only along NoSession -> Registering ->
\* Active -> Renewing -> Active -> Closed; a renewal request is sent only in a
\* step from Active to Renewing, Renewing is left for Active only by a
\* successful renewal response, and in Closed no request is sent and the
\* state does not change
C15_SessionStateMachine ==
    [][/\ SessionState' # SessionState
            => /\ <<SessionState, SessionState'>> \in SessionTransitions
               /\ (SessionState = "Renewing" /\ SessionState' = "Active")
                    => /\ RenewalOk(soup_msgs') # RenewalOk(soup_msgs)
                       /\ session_token' = session_token + 1
       /\ (DOMAIN soup_msgs' # DOMAIN soup_msgs
              /\ NumMsgs("renew_cb")' > NumMsgs("renew_cb"))
            => (SessionState = "Active" /\ SessionState' = "Renewing")
       /\ SessionState = "Closed"
            => /\ SessionState' = "Closed"
               /\ DOMAIN soup_msgs' = DOMAIN soup_msgs
               /\ \A m \in DOMAIN soup_msgs :
                     soup_msgs'[m].st = "queued" => soup_msgs[m].st = "queued"]_vars

\* closed from Active after one renewal: the whole cycle was walked
C15_Witness ==
    /\ cxn = "freed"
    /\ session_token = 2
    /\ at_close.closed
    /\ at_close.parked = {}
    /\ at_close.inflight = {}

RegistrationFailed ==
    \E m \in DOMAIN soup_msgs :
        soup_msgs[m].cb = "register_cb" /\ soup_msgs[m].done = <<"conn_error">>

\* C16: after a failed registration a connection error has been raised, the
\* session is not Active (no session token is stored), no negotiation
\* request was sent and the registration was sent once
C16_RegistrationFailureIsFatal ==
    (RegistrationFailed /\ cxn = "alive") =>
        /\ conn_error
        /\ SessionState = "Registering"
        /\ NumMsgs("ws_cb") = 0
        /\ NumMsgs("register_cb") = 1
        /\ conn_state # "connected"

\* the negotiation response r is a 200 with all four fields whose transport
\* list contains websocket, at any position
OffersWebsocket(r) ==
    /\ r.status = 200
    /\ r.data
    /\ r.nfields = 4
    /\ "websocket" \in Range(r.protos)

\* C17: a negotiation response (other than an authentication failure, which
\* is parked) starts the upgrade if and only if it is a 200 with four fields
\* and websocket in its transport list; otherwise a connection error is
\* raised and no upgrade is started
C17_UpgradeIffWebsocketOffered ==
    [][\A m \in Outstanding("ws_cb") : \A r \in WsResponses :
          (ws_cb(m, r) /\ r.status # 401)
              => IF OffersWebsocket(r)
                 THEN ws_conn' = "connecting" /\ conn_error' = conn_error
                 ELSE ws_conn' = ws_conn /\ conn_error']_vars

WebsocketLost == ws_conn \in {"closed", "failed"}

\* C18: once the websocket is closed or has failed it stays so; neither the
\* step that loses it nor a later one sends a request (no new negotiation, no
\* upgrade), and from the loss on no event reaches a subscription:
\* nothing is published, no callback is invoked, nothing is delivered, and
\* no marker, buffer or membership table changes
C18_NoReconnectNoDelivery ==
    [][/\ WebsocketLost => ws_conn' = ws_conn
       /\ WebsocketLost' =>
          /\ soup_msgs' = soup_msgs
          /\ published' = published
          /\ calls' = calls
          /\ \A room \in Rooms : delivered'[room] \in {delivered[room], <<>>}
          /\ last_msg' = last_msg
          /\ \A h \in DOMAIN chats \cap DOMAIN chats' :
                /\ chats'[h].messages = chats[h].messages
                /\ chats'[h].members = chats[h].members
                /\ chats'[h].users = chats[h].users]_vars

\* the websocket was closed after events had reached the chat of a room, and
\* the room is still joined
C18_Witness ==
    /\ ws_conn = "closed"
    /\ \E h \in DOMAIN chats : chats[h].messages = {1, 2} /\ chats[h].members # <<>>
    /\ Len(subs) = 3

\* the subscriptions of ss for exactly this channel and type, in the order of ss
Matching(ss, channel, type) ==
    SelectSeq(ss, LAMBDA sub : sub.channel = channel /\ sub.type = type)

Invoked(cs) == [i \in DOMAIN cs |-> cs[i].sub]

\* an event of this channel and type was dispatched in the step
Dispatched(channel, type, events) ==
    \E e \in events :
        LET d == Dispatch(World, subs, channel, type, e)
        IN /\ calls' = d.calls
           /\ chats' = d.W.chats
           /\ subs' = d.W.subs
           /\ \/ calls' # <<>>
              \/ published' # published

\* C19: the callbacks an event invokes are those of the subscriptions whose
\* channel and type are the event's, each once, in registration order, whatever
\* the callbacks before returned; no other subscription is invoked
C19_DispatchIsBroadcastInOrder ==
    [][/\ \A room \in Rooms : \A type \in {"RoomMessage", "RoomMembership"} :
            Dispatched(RoomChannel(room), type,
                       IF type = "RoomMessage" THEN MessageEvents ELSE MembershipEvents)
                => Invoked(calls') = Matching(subs, RoomChannel(room), type)
       /\ Dispatched(DeviceChannel, "RoomMessage", MessageEvents)
            => Invoked(calls') = Matching(subs, DeviceChannel, "RoomMessage")]_vars

\* an event of a room went to the chat of the room, which returned unhandled,
\* and then to the subscription another module registered later; the
\* subscriptions of the other type and of the other channel were left out
C19_Witness ==
    /\ Len(calls) = 2
    /\ calls[1].sub.cb = "chat_msg_jugg_cb"
    /\ ~calls[1].handled
    /\ calls[2].sub.cb = "observer"
    /\ Len(subs) = 4

\* C20: in every step, a chat that stays joined keeps every member of its
\* table, with the same id, email and display name
C20_MembersNeverShrink ==
    [][\A h \in DOMAIN chats \cap DOMAIN chats' :
          \A id \in DOMAIN chats[h].members :
              /\ id \in DOMAIN chats'[h].members
              /\ chats'[h].members[id] = chats[h].members[id]]_vars

\* the record accepted last, after the bulk load had ended, was one for a
\* member of the table with another email; the table has the first record
C20_Witness ==
    \E h \in DOMAIN chats :
        /\ chats[h].members_done
        /\ last_record # <<>>
        /\ last_record[1].member /\ last_record[1].complete
        /\ last_record[1].presence = "notPresent"
        /\ last_record[1].id \in DOMAIN chats[h].members
        /\ chats[h].members[last_record[1].id].email # last_record[1].email

(***************************************************************************)
(* Properties of the marker, the buffer, the dedup table and the send.     *)
(***************************************************************************)
MarkerOf(m) == [time |-> CreatedOn(m), id |-> m]

\* C21: the marker of a room is the time and id of the message delivered last
\* to the host in the session of the room
C21_MarkerIsLastDelivered ==
    \A room \in Rooms :
        delivered[room] # <<>>
            => last_msg[room] = MarkerOf(delivered[room][Len(delivered[room])])

\* the characters shown, without the markup of the mentions
RECURSIVE Unbold(_)
Unbold(text) ==
    IF text = <<>> THEN <<>>
    ELSE IF Head(text) \in {"<b>", "</b>"} THEN Unbold(Tail(text))
    ELSE <<Head(text)>> \o Unbold(Tail(text))

RECURSIVE CountOf(_, _)
CountOf(text, part) ==
    IF Len(text) < Len(part) THEN 0
    ELSE IF SubSeq(text, 1, Len(part)) = part
    THEN 1 + CountOf(SubSeq(text, Len(part) + 1, Len(text)), part)
    ELSE CountOf(Tail(text), part)

\* the typed text with "@all" and "@present" replaced by their display names
\* (the display name of a member stands for itself)
ShownAsTyped(message) ==
    replace(replace(message, AtAll, AllMembers), AtPresent, PresentMembers)

\* C22: the wire text has one "<@all|All Members>" for each "@all" typed, one
\* "<@present|Present Members>" for each "@present" and one "<@id|name>" for
\* each display name typed, and the text shown for it is the typed text with
\* each mention replaced by its display name
C22_MentionsRoundTrip ==
    /\ mention.stage \in {"sent", "shown"} =>
          /\ CountOf(mention.wire, ChimeMention(<<"a", "l", "l">>, AllMembers))
                = CountOf(mention.message, AtAll)
          /\ CountOf(mention.wire,
                     ChimeMention(<<"p", "r", "e", "s", "e", "n", "t">>, PresentMembers))
                = CountOf(mention.message, AtPresent)
          /\ \A i \in DOMAIN mention.members :
                LET m == mention.members[i]
                IN CountOf(mention.wire, ChimeMention(m.id, m.display_name))
                      = CountOf(mention.message, m.display_name)
    /\ mention.stage = "shown" =>
          Unbold(mention.shown) = g_markup_escape_text(ShownAsTyped(mention.message))

\* the history of the chat h is still being fetched
HistoryInProgress(h) == ~chats[h].msgs_done

\* the RoomMessage events with a MessageId for room
LiveMessages(room) == {e \in MessageEvents : e.record /\ e.id # 0 /\ e.room = room}

\* C23: while the history of a room is being fetched, a live RoomMessage event
\* (on the channel of the room or of the device) only puts its id into the
\* buffer of the chat, once however often it comes: nothing is delivered, the
\* marker, the dedup table and everything else stay as they are
C23_LiveEventIsBuffered ==
    \A room \in DOMAIN chats_by_room :
        LET h == chats_by_room[room]
        IN HistoryInProgress(h) =>
              \A e \in LiveMessages(room) : \A channel \in {RoomChannel(room), DeviceChannel} :
                  LET once == Dispatch(World, subs, channel, "RoomMessage", e).W
                      twice == Dispatch(once, subs, channel, "RoomMessage", e).W
                  IN /\ once = [World EXCEPT !.chats[h].messages = @ \cup {e.id}]
                     /\ twice = once

\* a live event was buffered before any page of the history came, for a
\* message whose id is in the dedup table
C23_Witness ==
    \E room \in DOMAIN chats_by_room :
        LET h == chats_by_room[room]
        IN /\ HistoryInProgress(h) /\ chats[h].soup_msg /\ chats[h].pages = 0
           /\ \E m \in chats[h].messages :
                 /\ <<"room", m>> \in published
                 /\ m \in chats[h].sent_msgs
                 /\ delivered[room] = <<m>>

Joined(room) == room \in DOMAIN chats_by_room

\* a page request of the history or of the membership of the room failed
FetchFailed(room) ==
    /\ Joined(room)
    /\ \/ <<"fetch_failed", "msgs">> \in DOMAIN conv_log[room]
       \/ chats[chats_by_room[room]].members_failed

\* the history of the room is complete and the room was reported ready
Ready(room) ==
    /\ Joined(room)
    /\ chats[chats_by_room[room]].msgs_done
    /\ chats[chats_by_room[room]].ready >= 1

\* C24: a joined room is eventually history-complete and ready, unless it is
\* left or one of its page requests fails
C24_EventuallyReady ==
    \A room \in Rooms : Joined(room) ~> (~Joined(room) \/ FetchFailed(room) \/ Ready(room))

\* a room without a message in its history is complete and ready
C24_Witness ==
    \E room \in Rooms :
        /\ Ready(room) /\ ~FetchFailed(room)
        /\ delivered[room] = <<>> /\ last_msg[room] = NoMarker
        /\ chats[chats_by_room[room]].members # <<>>

\* C25: after a page request of the history or of the membership of a room
\* failed, the room has an error notice for it, no request of that pagination
\* is pending, the room was not reported ready, it is still joined with its
\* two subscriptions, and the connection is not in error
C25_FetchFailureIsRoomLevel ==
    \A room \in Rooms :
        FetchFailed(room) =>
            LET h == chats_by_room[room]
            IN /\ <<"fetch_failed", "msgs">> \in DOMAIN conv_log[room]
                     => ~chats[h].soup_msg
               /\ chats[h].members_failed
                     => /\ ~chats[h].members_msg
                        /\ <<"fetch_failed", "members">> \in DOMAIN conv_log[room]
               /\ chats[h].ready = 0
               /\ h \in DOMAIN chats /\ live_chats[chats[h].conv] = h
               /\ \E i \in DOMAIN subs :
                     subs[i] = Sub(RoomChannel(room), "RoomMessage", "chat_msg_jugg_cb", h)
               /\ \E i \in DOMAIN subs :
                     subs[i] = Sub(RoomChannel(room), "RoomMembership",
                                   "chat_membership_jugg_cb", h)
               /\ conn_state = "connected" /\ ~conn_error

\* the two subscriptions of the chat h
SubsOf(room, h) ==
    {Sub(RoomChannel(room), "RoomMessage", "chat_msg_jugg_cb", h),
     Sub(RoomChannel(room), "RoomMembership", "chat_membership_jugg_cb", h)}
ChatSubs(h) == SubsOf(chats[h].room, h)

\* the sequence ss without the elements in S
RECURSIVE Without(_, _)
Without(ss, S) ==
    IF ss = <<>> THEN <<>>
    ELSE IF Head(ss) \in S THEN Without(Tail(ss), S)
    ELSE <<Head(ss)>> \o Without(Tail(ss), S)

\* the step leaves the chat h
Leaves(h) == h \in DOMAIN chats /\ h \notin DOMAIN chats'

\* the step joins room
Joins(room) == ~Joined(room) /\ Joined(room)'

\* C26: the step that leaves a chat cancels its pending history and membership
\* requests and touches no other request, takes exactly the two subscriptions
\* of the chat out of the subscriptions, and takes the chat out of both
\* registries; the step that joins a room makes a chat that did not exist, with
\* an empty membership table, an empty dedup table, nothing loaded and a new
\* request for the first page of each pagination
C26_LeaveReleasesJoinIsFresh ==
    [][/\ \A h \in DOMAIN chats :
             Leaves(h) =>
                /\ \A r \in requests :
                      IF r.chat = h /\ r.kind \in {"msgs", "members"}
                      THEN r \notin Pending(r.kind)' /\ [r EXCEPT !.cancelled = TRUE] \in requests'
                      ELSE r \in requests'
                /\ \A r \in requests' : r \in requests \/ (r.chat = h /\ r.cancelled)
                /\ subs' = Without(subs, ChatSubs(h))
                /\ Len(subs') = Len(subs) - 2
                /\ chats[h].conv \notin DOMAIN live_chats'
                /\ chats[h].room \notin DOMAIN chats_by_room'
       /\ \A room \in Rooms :
             Joins(room) =>
                LET h == chats_by_room'[room]
                IN /\ h \notin DOMAIN chats /\ h \in DOMAIN chats'
                   /\ live_chats'[chats'[h].conv] = h
                   /\ chats'[h].members = <<>> /\ chats'[h].users = <<>>
                   /\ chats'[h].sent_msgs = {}
                   /\ ~chats'[h].msgs_done /\ ~chats'[h].members_done
                   /\ chats'[h].ready = 0
                   /\ Request("msgs", h, room, 0) \in Pending("msgs")'
                   /\ Request("members", h, room, 0) \in Pending("members")'
                   /\ \E k \in 1 .. MaxJoins :
                         k = h /\ Without(subs', SubsOf(room, k)) = subs]_vars

\* a room was left with both of its requests pending and joined again before
\* the callbacks of the cancelled requests ran
C26_Witness ==
    \E room \in DOMAIN chats_by_room :
        LET h == chats_by_room[room]
        IN /\ h = 2
           /\ \A kind \in {"msgs", "members"} :
                 [Request(kind, 1, room, 0) EXCEPT !.cancelled = TRUE] \in requests
           /\ chats[h].soup_msg /\ chats[h].members_msg
           /\ Len(subs) = 3

\* what the step appends to the messages delivered for room
Appended(room) ==
    SubSeq(delivered'[room], Len(delivered[room]) + 1, Len(delivered'[room]))

\* the step publishes the live message m on the channel of a room
LiveOnRoom(m) == <<"room", m>> \in published' \ published

\* C27: a message that comes up for delivery, live on the channel of the room
\* or in the batch of the history, is dropped and its id taken out of the
\* dedup table if the id is in the table, and is delivered and the table left
\* alone if it is not; an id leaves the table only so, and an id enters the
\* table only with a send request of the chat that this step answers
C27_DedupTable ==
    [][\A h \in DOMAIN chats \cap DOMAIN chats' :
          LET room == chats[h].room
              table == chats[h].sent_msgs
          IN /\ \A m \in MsgIds :
                   (LiveOnRoom(m) /\ ~chats[h].gathering) =>
                      IF m \in table
                      THEN /\ delivered'[room] = delivered[room]
                           /\ chats'[h].sent_msgs = table \ {m}
                      ELSE /\ delivered'[room] = Append(delivered[room], m)
                           /\ chats'[h].sent_msgs = table
             /\ chats'[h].ready > chats[h].ready =>
                   /\ delivered[room] = SubSeq(delivered'[room], 1, Len(delivered[room]))
                   /\ chats'[h].sent_msgs \subseteq table
                   /\ \A m \in chats[h].messages :
                         IF m \in table
                         THEN Occurrences(Appended(room), m) = 0 /\ m \notin chats'[h].sent_msgs
                         ELSE Occurrences(Appended(room), m) = 1
                   /\ \A m \in MsgIds :
                         Occurrences(Appended(room), m) > 0 => m \notin table
             /\ \A m \in table \ chats'[h].sent_msgs :
                   /\ Occurrences(delivered'[room], m) = Occurrences(delivered[room], m)
                   /\ LiveOnRoom(m) \/ chats'[h].ready > chats[h].ready
                         \/ <<"device", m>> \in published' \ published
             /\ \A m \in chats'[h].sent_msgs \ table :
                   \E r \in requests \ requests' : r.kind = "send" /\ r.chat = h /\ r.n = m]_vars

\* the send of message 2 was answered while the history was gathered; the batch
\* of the history held 1 and 2: 1 was delivered, 2 was dropped and left the table
C27_Witness ==
    \E room \in DOMAIN chats_by_room :
        LET h == chats_by_room[room]
        IN /\ chats[h].ready = 1
           /\ delivered[room] = <<2, 1>>
           /\ last_msg[room] = MarkerOf(2)
           /\ chats[h].sent_msgs = {}
           /\ sends.answered = {<<h, 2>>}
           /\ published = {}

\* how often the notice was written to the conversation of the room
Notices(log, notice) == IF notice \in DOMAIN log THEN log[notice] ELSE 0

SendFailed == <<"send_failed", "">>

\* the unsuccessful responses to a send
FailedResponses(m) == {r \in SendResponses(m) : ~r.ok}

\* C28: the callback of a send answered without success writes one error
\* message to the conversation of the room and changes nothing else: nothing
\* is delivered, the dedup table and the marker stay as they are, and no
\* request is made
C28_SendFailureIsOneError ==
    \A r \in Pending("send") \ Orphaned : \A resp \in FailedResponses(r.n) :
        LET W == send_msg_cb(World, r.chat, resp)
        IN /\ Notices(W.conv_log[r.room], SendFailed)
                 = Notices(conv_log[r.room], SendFailed) + 1
           /\ \A n \in DOMAIN W.conv_log[r.room] \ {SendFailed} :
                 Notices(conv_log[r.room], n) = W.conv_log[r.room][n]
           /\ [W EXCEPT !.conv_log = conv_log] = World

\* the one send of the room failed: one error message, nothing delivered,
\* nothing in the dedup table, no marker, no request
C28_Witness ==
    \E room \in DOMAIN chats_by_room :
        LET h == chats_by_room[room]
        IN /\ Notices(conv_log[room], SendFailed) = 1
           /\ delivered[room] = <<>> /\ chats[h].sent_msgs = {}
           /\ last_msg[room] = NoMarker
           /\ sends = [n |-> 1, answered |-> {}]
           /\ Pending("send") = {}

\* the record has a Member object, a presence of present or notPresent and
\* all of ProfileId, Email and DisplayName
ValidRecord(n) == n.member /\ n.presence \in {"present", "notPresent"} /\ n.complete

FlagOf(n) == IF n.presence = "notPresent" THEN "AWAY" ELSE "VOICE"

AddUser(email) == <<"add_user", email>>

\* C29: for every chat and every membership record, add_chat_member
\*   - of a valid record with an id not in the table adds the member under
\*     that id and tells the host once of a user who joined with the flag of
\*     the record,
\*   - of a valid record with an id in the table leaves the table alone, tells
\*     the host of no join and sets the flag of that member to the flag of
\*     the record,
\*   - of any other record changes nothing and returns FALSE
C29_MemberRecord ==
    \A h \in DOMAIN chats : \A n \in MemberNodes :
        LET r == add_chat_member(World, h, n)
            c == chats[h]
            room == c.room
        IN IF ~ValidRecord(n) THEN r.W = World /\ ~r.ok
           ELSE /\ r.ok
                /\ [r.W EXCEPT !.chats[h].members = c.members,
                               !.chats[h].users = c.users,
                               !.conv_log[room] = conv_log[room]] = World
                /\ IF n.id \notin DOMAIN c.members
                   THEN /\ DOMAIN r.W.chats[h].members = DOMAIN c.members \cup {n.id}
                        /\ r.W.chats[h].members[n.id].email = n.email
                        /\ \A id \in DOMAIN c.members : r.W.chats[h].members[id] = c.members[id]
                        /\ Notices(r.W.conv_log[room], AddUser(n.email))
                              = Notices(conv_log[room], AddUser(n.email)) + 1
                        /\ r.W.chats[h].users[n.email] = FlagOf(n)
                   ELSE /\ r.W.chats[h].members = c.members
                        /\ r.W.conv_log[room] = conv_log[room]
                        /\ LET email == c.members[n.id].email
                           IN /\ r.W.chats[h].users[email] = FlagOf(n)
                              /\ \A u \in DOMAIN c.users \ {email} :
                                    r.W.chats[h].users[u] = c.users[u]
                              /\ DOMAIN r.W.chats[h].users = DOMAIN c.users

\* C30: the callback of a send request does not run after the chat of the
\* request was left
C30_NoSendCallbackAfterLeave ==
    "send" \notin stale_cbs

(* Properties of the sends, the renewals, the automatic join, the login   *)
(* and the registries.                                                     *)
\* the message m was handed to the host in the session of room
DeliveredIn(room, m) == \E i \in DOMAIN delivered[room] : delivered[room][i] = m

Parkable == {<<cb, n>> : cb \in {"ws_cb", "rest_cb"}, n \in 1 .. MaxRest}

Parked(m) == m \in DOMAIN soup_msgs /\ soup_msgs[m].st = "parked"

\* C32: a request that is parked while the pending-renewal queue is empty
\* starts a renewal in the same step, also after earlier renewals; and every
\* parked request is eventually handed to the soup session again with the
\* newest token, unless a renewal fails or the connection is closed
C32_LateAuthFailureRenewsAgain ==
    /\ [][\A m \in Parkable :
             (~Parked(m) /\ Parked(m)' /\ msg_queue = <<>>)
                => /\ Count(soup_msgs', "renew_cb") = NumMsgs("renew_cb") + 1
                   /\ \E n \in Outstanding("renew_cb")' : soup_msgs'[n].cookie = session_token
                   /\ msg_queue' = <<[msg |-> m, cb |-> soup_msgs[m].cb]>>]_vars
    /\ \A m \in Parkable :
          Parked(m) ~> \/ /\ Queued(m) /\ soup_msgs[m].reissued
                          /\ soup_msgs[m].cookie = session_token
                       \/ RenewalFailed
                       \/ cxn = "freed"

\* a request sent with token 1 was answered 401 after the first renewal had
\* completed: it is parked alone and the second renewal is outstanding
C32_Witness ==
    \E m \in Parkable :
        /\ Parked(m) /\ soup_msgs[m].cookie = 1
        /\ session_token = 2 /\ msg_queue = <<[msg |-> m, cb |-> soup_msgs[m].cb]>>
        /\ <<"renew_cb", 1>> \in DOMAIN soup_msgs
        /\ soup_msgs[<<"renew_cb", 1>>].done = <<"ok">>
        /\ Queued(<<"renew_cb", 2>>) /\ soup_msgs[<<"renew_cb", 2>>].cookie = 2

\* the event names a known room
ForKnownRoom(e) == e.record /\ e.room \in Rooms

Ended(msgs, cb, result) ==
    \E m \in DOMAIN msgs : msgs[m].cb = cb /\ result \in Range(msgs[m].done)

\* one of the three steps of the login failed
LoginStepFailed ==
    \/ Ended(soup_msgs, "register_cb", "conn_error")
    \/ Ended(soup_msgs, "ws_cb", "conn_error")
    \/ ws_conn = "failed"

\* C34: a connection that is reported connected has a registration that was
\* parsed, a negotiation that was accepted and a websocket that was opened,
\* and none of the three steps has failed; each step starts only in the step
\* that ends the one before it with success, and the connection becomes
\* connected only in the step that opens the websocket; a step that fails
\* while the connection is alive raises a connection error
C34_ConnectedAfterThreeSteps ==
    /\ [](conn_state = "connected" =>
             /\ Ended(soup_msgs, "register_cb", "ok")
             /\ Ended(soup_msgs, "ws_cb", "ok")
             /\ ws_conn \in {"open", "closed", "none"}
             /\ session_token # 0
             /\ ~LoginStepFailed)
    /\ [][/\ Count(soup_msgs', "ws_cb") > NumMsgs("ws_cb")
             => ~Ended(soup_msgs, "register_cb", "ok") /\ Ended(soup_msgs', "register_cb", "ok")
          /\ (ws_conn # "connecting" /\ ws_conn' = "connecting")
             => ~Ended(soup_msgs, "ws_cb", "ok") /\ Ended(soup_msgs', "ws_cb", "ok")
          /\ (conn_state # "connected" /\ conn_state' = "connected")
             => ws_conn = "connecting" /\ ws_conn' = "open"
          /\ conn_state = "connected" => conn_state' = "connected"
          /\ (~LoginStepFailed /\ LoginStepFailed' /\ cxn' = "alive") => conn_error'
          /\ LoginStepFailed => LoginStepFailed' /\ conn_state' # "connected"]_vars

\* the connection is connected after a negotiation that was first answered
\* 401, parked and re-issued
C34_Witness ==
    /\ conn_state = "connected" /\ ws_conn = "open" /\ ~conn_error
    /\ soup_msgs[<<"register_cb", 1>>].done = <<"ok">>
    /\ soup_msgs[<<"ws_cb", 1>>].done = <<"ok">>
    /\ soup_msgs[<<"ws_cb", 1>>].reissued

\* f maps different keys to different values
Injective(f) == \A x, y \in DOMAIN f : f[x] = f[y] => x = y

\* C35: the registry by chat id and the registry by room hold the same
\* sessions, all of them allocated; a session is under one id, the id of its
\* conversation, and under one room, its own; every id in use was issued by
\* the counter, the counter never goes down, and an id that enters the
\* registry is later than every id issued before, so no id is given twice
C35_RegistriesAgree ==
    /\ [](/\ Range(live_chats) = Range(chats_by_room)
          /\ Range(live_chats) \subseteq DOMAIN chats
          /\ Injective(live_chats) /\ Injective(chats_by_room)
          /\ \A id \in DOMAIN live_chats : chats[live_chats[id]].conv = id
          /\ \A room \in DOMAIN chats_by_room : chats[chats_by_room[room]].room = room
          /\ DOMAIN live_chats \subseteq 1 .. chat_id)
    /\ [][/\ chat_id' >= chat_id
          /\ \A id \in DOMAIN live_chats' \ DOMAIN live_chats : id > chat_id
          /\ \A id \in DOMAIN live_chats' \cap DOMAIN live_chats :
                 live_chats'[id] = live_chats[id]
                    /\ chats'[live_chats[id]].room = chats[live_chats[id]].room]_vars

\* two chats are live, the second in the room of a chat that was left, under
\* a later id than the one that was left
C35_Witness ==
    /\ DOMAIN chats_by_room = MoreRooms
    /\ DOMAIN live_chats = {2, 3}
    /\ chat_id = 3

\* the idle refreshes that are scheduled and have not run
Scheduled == PendingSources(sources)

\* C36: the sources that are scheduled are exactly the one joinable_refresh_id
\* names, none when it is 0, so at most one refresh is scheduled; a refresh is
\* scheduled only with the dialog open, and with the dialog closed or the
\* connection destroyed none is scheduled, so none can run; a step schedules
\* at most one refresh and only while the dialog is open before and after
\* it, and a step that closes the dialog leaves nothing scheduled
C36_OneRefreshWhileOpen ==
    /\ [](/\ Scheduled = IF joinable_refresh_id = 0 THEN {} ELSE {joinable_refresh_id}
          /\ Cardinality(Scheduled) <= 1
          /\ joinable_handle = "NULL" => Scheduled = {} /\ joinable_refresh_id = 0
          /\ purple_chime = "destroyed" => joinable_handle = "NULL"
          /\ \A id \in Scheduled :
                 update_joinable(Joinable, id).handle = "dialog"
                    /\ PendingSources(update_joinable(Joinable, id).sources) = {})
    /\ [][/\ Len(sources') > Len(sources)
               => /\ Len(sources') = Len(sources) + 1
                  /\ Scheduled = {}
                  /\ joinable_handle = "dialog" /\ joinable_handle' = "dialog"
          /\ (joinable_handle = "dialog" /\ joinable_handle' = "NULL")
               => /\ Scheduled' = {}
                  /\ \A id \in Scheduled : sources'[id] = "removed"
          /\ \A id \in DOMAIN sources :
                 sources[id] # "pending" => sources'[id] = sources[id]]_vars

\* the dialog was closed while a refresh was scheduled: the refresh was
\* removed and did not run, after an earlier refresh had run
C36_Witness ==
    /\ joinable_handle = "NULL"
    /\ joinable_refresh_id = 0
    /\ sources = <<"ran", "removed">>
    /\ purple_chime = "alive"

====
